---- MODULE Spec2Model ----
(***************************************************************************)
(* SnapNote backend: the entry ledger (journalController.createEntry with  *)
(* the unique index of the JournalEntry schema and the route's limiter)    *)
(* and the identity / session lifecycle (authController with the User      *)
(* model's lockout methods and the JWT helpers).                           *)
(*                                                                         *)
(* Every request is a process; one action is the code of a handler from    *)
(* one store operation (an await on the database) to the next, so that     *)
(* requests interleave exactly where the event loop lets them.             *)
(***************************************************************************)
EXTENDS Integers, Sequences, FiniteSets, TLC

None == "none"

\* An absent number (a Date field that is not set).
Absent == 0 - 1

(***************************************************************************)
(* Part I.  Entry ledger                                                   *)
(***************************************************************************)

\* Bounds of the ledger model: the createEntry requests, the last clock value
\* and the clock ticks that make a UTC day.
MaxEntryReqs == 3
MaxClock == 3
TicksPerDay == 2

\* Program constants.
MaxDuration == 60
MinDurationField == 1
MaxContentLength == 2000
CreateEntryLimit == 1

Identities == {"u1", "u2"}
\* The email strings of the model: an identity is named by its stored email,
\* which is lowercase; "U2" is the same address typed in upper case.
EmailStrings == Identities \cup {"U2"}
ClientIPs == {"ip1", "ip2"}
Durations == {45, 61}
\* Request bodies: content is a string, here a sequence of characters.
Contents == { <<"a">>, <<"<", ">">>, <<" ", "a", "<">> }

EntryReqs == 1..MaxEntryReqs

VARIABLES
  clock,       \* the server clock of the ledger (Date.now()), in ticks
  entries,     \* the JournalEntry collection: a set of documents
  limiterHits, \* createEntryLimiter's memory store: per client key, the hits of the window
  limiterStart, \* per client key, the clock at the first hit of the window
  ereq         \* the createEntry requests: position, inputs, locals, response

ledgerVars == <<clock, entries, limiterHits, limiterStart, ereq>>

VARIABLES
  now,           \* the server clock of the identity subsystem, in clock units
  users,         \* the User collection: per identity, its document (or none)
  proc,          \* the auth requests in flight: position, inputs, locals
  last,          \* the response sent last
  issuedRefresh, \* the refresh tokens handed to clients so far
  issuedAccess,  \* the access tokens handed to clients so far
  started,       \* the number of requests received in a session scenario
  fifthAt,       \* per identity, the time of the failure that brought the counter to 5
  log,           \* the console lines that carry fields of a request body
  stats          \* a statistics request: the clock, the zone, the entry days, the answers

authVars == <<now, users, proc, last, issuedRefresh, issuedAccess, fifthAt, started, log,
              stats>>

VARIABLES
  signup,        \* a password on its way through the checks of register
  timer          \* the state of the client's writing timer (useTimer)

clientVars == <<signup, timer>>

vars == <<clock, entries, limiterHits, limiterStart, ereq,
          now, users, proc, last, issuedRefresh, issuedAccess, fifthAt, started, log,
          stats, signup, timer>>

IsSpace(c) == c = " "

RECURSIVE TrimLeft(_)
TrimLeft(s) == IF s # <<>> /\ IsSpace(Head(s)) THEN TrimLeft(Tail(s)) ELSE s

RECURSIVE TrimRight(_)
TrimRight(s) ==
  IF s # <<>> /\ IsSpace(s[Len(s)]) THEN TrimRight(SubSeq(s, 1, Len(s) - 1)) ELSE s

\* String.prototype.trim
Trim(s) == TrimLeft(TrimRight(s))

\* input.trim().replace(/[<>]/g, '').slice(0, 2000)
sanitizeInput(s) ==
  LET t == Trim(s)
      stripped == SelectSeq(t, LAMBDA c : c \notin {"<", ">"})
  IN  SubSeq(stripped, 1, IF Len(stripped) < MaxContentLength THEN Len(stripped)
                                                                ELSE MaxContentLength)

\* createEntryValidation: body('content').trim().isLength({min: 1, max: 2000}),
\* body('writingDuration').isNumeric().isFloat({min: 1, max: 60})
createEntryValidation(content, duration) ==
  /\ Len(Trim(content)) >= 1
  /\ Len(Trim(content)) <= MaxContentLength
  /\ duration >= MinDurationField
  /\ duration <= MaxDuration

\* formatDateString(date): date.toISOString().split('T')[0], the UTC calendar
\* day of the instant (days are numbered).
formatDateString(date) == date \div TicksPerDay

\* JournalEntry.findOne({userId, dateString})
FindEntry(u, dateString) ==
  {e \in entries : e.userId = u /\ e.dateString = dateString}

\* A collection without the unique index accepts every insert.
UniqueIndexMissing(u, dateString) == TRUE

\* The unique compound index {userId: 1, dateString: 1}: an insert of a second
\* document with the same key pair is refused with the duplicate-key error 11000.
UniqueIndexAllows(u, dateString) == FindEntry(u, dateString) = {}

DuplicateKeyCode == 11000

\* A catch block without the error.code test answers every failure alike.
CreateEntryCatchGeneric(code) == "error"

\* createEntry's catch block: error.code === 11000 is the duplicate, anything
\* else the generic 500.
CreateEntryCatch(code) == IF code = DuplicateKeyCode THEN "duplicate" ELSE "error"

IdleEntryReq ==
  [pc |-> "new", userId |-> None, valid |-> FALSE, hadEntry |-> FALSE,
   today |-> 0, content |-> <<>>, duration |-> 0,
   dateString |-> Absent, resp |-> None, timezone |-> "UTC"]

\* The 'timezone' request header: absent, or the name of a zone; Etc/GMT-12 is
\* half a day ahead of UTC.
TimezoneHeaders == {"none", "UTC", "Etc/GMT-12"}

ZoneOffset(timezone) == IF timezone = "Etc/GMT-12" THEN TicksPerDay \div 2 ELSE 0

\* The calendar day of an instant on the clocks of a zone.
LocalDay(timezone, date) == (date + ZoneOffset(timezone)) \div TicksPerDay

\* POST /entries up to the first await of the controller: the limiter, the
\* validators, the controller's own checks and the findOne pre-check.
CreateEntryWithHeader(r, u, ip, content, duration, header) ==
  /\ ereq[r].pc = "new"
  /\ \A q \in EntryReqs : q < r => ereq[q].pc # "new"
  /\ limiterHits' = [limiterHits EXCEPT ![ip] = @ + 1]
  /\ limiterStart' = [limiterStart EXCEPT ![ip] = IF limiterHits[ip] = 0 THEN clock ELSE @]
  /\ LET today == formatDateString(clock)
         sanitizedContent == sanitizeInput(content)
         base == [ereq[r] EXCEPT !.userId = u,
                                 !.valid = createEntryValidation(content, duration)
                                           /\ Len(Trim(sanitizedContent)) > 0,
                                 !.hadEntry = FindEntry(u, today) # {}]
         outcome ==
           IF limiterHits[ip] + 1 > CreateEntryLimit THEN "ratelimit"
           ELSE IF ~createEntryValidation(content, duration) THEN "validation"
           ELSE IF Len(Trim(sanitizedContent)) = 0 THEN "empty"
           ELSE IF duration > MaxDuration THEN "duration"
           ELSE IF FindEntry(u, today) # {} THEN "duplicate"
           ELSE "proceed"
     IN  ereq' = [ereq EXCEPT ![r] =
                    IF outcome = "proceed"
                    THEN [base EXCEPT !.pc = "save", !.today = today,
                                      !.content = sanitizedContent,
                                      !.duration = duration,
                                      !.timezone = IF header = "none" THEN "UTC"
                                                                      ELSE header]
                    ELSE [base EXCEPT !.pc = "done", !.resp = outcome]]
  /\ UNCHANGED <<clock, entries>>
  /\ UNCHANGED <<authVars, clientVars>>

\* POST /entries of a client that sends no 'timezone' header.
CreateEntryBegin(r, u, ip, content, duration) ==
  CreateEntryWithHeader(r, u, ip, content, duration, "none")

\* A hook that takes the day from the clocks of the client's zone.
preSaveLocalDay(doc) ==
  [doc EXCEPT !.characterCount = Len(doc.content),
              !.dateString = LocalDay(doc.timezone, doc.entryDate)]

\* journalEntrySchema.pre('save') on a new document: the counts of the content,
\* and dateString = new Date(this.entryDate).toISOString().split('T')[0].
preSave(doc) ==
  [doc EXCEPT !.characterCount = Len(doc.content),
              !.dateString = formatDateString(doc.entryDate)]

\* A save that replaces the entry of the day instead of refusing the second one.
CreateEntrySaveUpsert(r) ==
  /\ ereq[r].pc = "save"
  /\ LET doc == preSave([id |-> r, userId |-> ereq[r].userId,
                         content |-> ereq[r].content, characterCount |-> 0,
                         writingDuration |-> ereq[r].duration, entryDate |-> clock,
                         dateString |-> ereq[r].today,
                         timezone |-> ereq[r].timezone])
     IN  /\ entries' = (entries \ FindEntry(ereq[r].userId, doc.dateString)) \cup {doc}
         /\ ereq' = [ereq EXCEPT ![r].pc = "done", ![r].resp = "created",
                                 ![r].hadEntry = FALSE,
                                 ![r].dateString = doc.dateString]
  /\ UNCHANGED <<clock, limiterHits, limiterStart>>
  /\ UNCHANGED <<authVars, clientVars>>

\* new JournalEntry({... entryDate: new Date(), dateString: today ...}).save():
\* the pre('save') hook recomputes dateString from entryDate, then the insert runs
\* against the unique index; error.code === 11000 is answered as the duplicate.
CreateEntrySave(r) ==
  /\ ereq[r].pc = "save"
  /\ LET entryDate == clock
         doc == preSave([id |-> r, userId |-> ereq[r].userId,
                         content |-> ereq[r].content, characterCount |-> 0,
                         writingDuration |-> ereq[r].duration, entryDate |-> entryDate,
                         dateString |-> ereq[r].today,
                         timezone |-> ereq[r].timezone])
         dateString == doc.dateString
     IN  IF UniqueIndexAllows(ereq[r].userId, dateString)
         THEN /\ entries' = entries \cup {doc}
              /\ ereq' = [ereq EXCEPT ![r].pc = "done", ![r].resp = "created",
                                      ![r].hadEntry = FALSE,
                                      ![r].dateString = dateString]
         ELSE /\ entries' = entries
              /\ ereq' = [ereq EXCEPT ![r].pc = "done",
                                      ![r].resp = CreateEntryCatch(DuplicateKeyCode),
                                      ![r].hadEntry = TRUE,
                                      ![r].dateString = dateString]
  /\ UNCHANGED <<clock, limiterHits, limiterStart>>
  /\ UNCHANGED <<authVars, clientVars>>

\* A check that looks for an entry of any day.
hasEntryOfAnyDay(userId, dateString) == \E e \in entries : e.userId = userId

\* JournalEntry.hasEntryForToday's query: !!findOne({userId, dateString}).
hasEntryForToday(userId, dateString) == FindEntry(userId, dateString) # {}

\* GET /can-write-today up to the await: hasEntryForToday takes
\* dateString = new Date().toISOString().split('T')[0] and issues the findOne.
CanWriteTodayBegin(r, u) ==
  /\ ereq[r].pc = "new"
  /\ \A q \in EntryReqs : q < r => ereq[q].pc # "new"
  /\ ereq' = [ereq EXCEPT ![r] = [IdleEntryReq EXCEPT !.pc = "cw_find", !.userId = u,
                                                      !.today = formatDateString(clock)]]
  /\ UNCHANGED <<clock, entries, limiterHits, limiterStart>>
  /\ UNCHANGED <<authVars, clientVars>>

\* The findOne resolves: res.json({canWrite: !hasWrittenToday, hasWrittenToday}).
CanWriteTodayFind(r) ==
  /\ ereq[r].pc = "cw_find"
  /\ ereq' = [ereq EXCEPT ![r].pc = "done",
                          ![r].resp = IF hasEntryForToday(ereq[r].userId, ereq[r].today)
                                      THEN "has_written" ELSE "can_write"]
  /\ UNCHANGED <<clock, entries, limiterHits, limiterStart>>
  /\ UNCHANGED <<authVars, clientVars>>

\* The limiter's memory store forgets a client key: 24 hours (windowMs) after
\* the key's first hit at the latest, and earlier when the store's own timer
\* fires first.
LimiterWindowExpires(ip) ==
  /\ limiterHits[ip] > 0
  /\ limiterHits' = [limiterHits EXCEPT ![ip] = 0]
  /\ UNCHANGED <<clock, entries, limiterStart, ereq>>
  /\ UNCHANGED <<authVars, clientVars>>

\* The clock advances; a window that is 24 hours old has been reset.
ClockTick ==
  /\ clock < MaxClock
  /\ \A ip \in ClientIPs : limiterHits[ip] > 0 => clock + 1 < limiterStart[ip] + TicksPerDay
  /\ clock' = clock + 1
  /\ UNCHANGED <<entries, limiterHits, limiterStart, ereq>>
  /\ UNCHANGED <<authVars, clientVars>>

NextLedger ==
  \/ \E r \in EntryReqs, u \in Identities, ip \in ClientIPs, c \in Contents,
        d \in Durations : CreateEntryBegin(r, u, ip, c, d)
  \/ \E r \in EntryReqs : CreateEntrySave(r)
  \/ \E ip \in ClientIPs : LimiterWindowExpires(ip)
  \/ ClockTick

(***************************************************************************)
(* The password checks of register, and the writing timer                  *)
(***************************************************************************)

\* Characters of passwords: a lowercase letter, an uppercase letter, a digit,
\* '@' (a symbol of both validators' classes) and '#' (a symbol of
\* validatePassword's class only).
PasswordChars == {"a", "A", "1", "@", "#"}

LowerCase == {"a"}
UpperCase == {"A"}
Digits == {"1"}
\* [@$!%*?&]
RouteSymbols == {"@"}
\* [!@#$%^&*(),.?":{}|<>]
SpecialChars == {"@", "#"}

MinPasswordLength == 8

\* regex.test(password) for a character class
Has(password, class) == \E i \in 1..Len(password) : password[i] \in class

\* The password texts a client submits: four characters of any kind, alone or
\* followed by three or four lowercase letters (4, 7 or 8 characters).
PasswordTexts ==
  {head \o fill : head \in [1..4 -> PasswordChars],
                  fill \in {<<>>, <<"a", "a", "a">>, <<"a", "a", "a", "a">>}}

\* registerValidation on body('password'): isLength({min: 8}) and
\* matches(/^(?=.*[a-z])(?=.*[A-Z])(?=.*\d)(?=.*[@$!%*?&])[A-Za-z\d@$!%*?&]/):
\* the four lookaheads, then one character of the class at the start.
registerValidation(password) ==
  /\ Len(password) >= MinPasswordLength
  /\ Has(password, LowerCase)
  /\ Has(password, UpperCase)
  /\ Has(password, Digits)
  /\ Has(password, RouteSymbols)
  /\ password[1] \in LowerCase \cup UpperCase \cup Digits \cup RouteSymbols

\* validatePassword(password).isValid
validatePasswordStrength(password) ==
  /\ Len(password) >= MinPasswordLength
  /\ Has(password, UpperCase)
  /\ Has(password, LowerCase)
  /\ Has(password, Digits)
  /\ Has(password, SpecialChars)

NoSignup == [password |-> <<>>, pc |-> "idle", resp |-> None]

\* register's checks of the password: validationResult of registerValidation
\* (400 'Validation failed'), then validatePassword (400 'Password does not meet
\* requirements'), then on to the lookup of the email.
RegisterCheckPassword ==
  /\ signup.pc = "submitted"
  /\ signup' = [signup EXCEPT
                  !.pc = "done",
                  !.resp = IF ~registerValidation(signup.password) THEN "validation"
                           ELSE IF ~validatePasswordStrength(signup.password)
                                THEN "password_requirements"
                           ELSE "accepted"]
  /\ UNCHANGED <<ledgerVars, authVars, timer>>

\* useTimer's initialTime, in seconds (its default)
InitialTime == 60

\* useState<TimerState>({timeLeft: initialTime, isActive: false, hasStarted:
\* false, isCompleted: false})
NewTimer ==
  [timeLeft |-> InitialTime, isActive |-> FALSE, hasStarted |-> FALSE,
   isCompleted |-> FALSE]

\* The interval of the timer effect fires: it exists while isActive and
\* timeLeft > 0; the updater takes one second off and completes the timer at 0.
TimerTick ==
  /\ timer.isActive /\ timer.timeLeft > 0
  /\ LET newTimeLeft == timer.timeLeft - 1
     IN  timer' = IF newTimeLeft <= 0
                  THEN [timer EXCEPT !.timeLeft = 0, !.isActive = FALSE,
                                     !.isCompleted = TRUE]
                  ELSE [timer EXCEPT !.timeLeft = newTimeLeft]
  /\ UNCHANGED <<ledgerVars, authVars, signup>>

TimerStart ==
  /\ timer' = [timer EXCEPT !.isActive = TRUE, !.hasStarted = TRUE]
  /\ UNCHANGED <<ledgerVars, authVars, signup>>

TimerPause ==
  /\ timer' = [timer EXCEPT !.isActive = FALSE]
  /\ UNCHANGED <<ledgerVars, authVars, signup>>

TimerResume ==
  /\ timer' = [timer EXCEPT !.isActive = TRUE]
  /\ UNCHANGED <<ledgerVars, authVars, signup>>

TimerReset ==
  /\ timer' = NewTimer
  /\ UNCHANGED <<ledgerVars, authVars, signup>>

TimerStop ==
  /\ timer' = [timer EXCEPT !.isActive = FALSE, !.isCompleted = TRUE]
  /\ UNCHANGED <<ledgerVars, authVars, signup>>

(***************************************************************************)
(* Part II.  Identities, lockout and session tokens                        *)
(***************************************************************************)

\* Bounds of the identity model.
NProc == 2
MaxTime == 3
MaxTokens == 2
MaxRequests == 4
MaxGuardRequests == 3
MaxMfaRequests == 4
\* Token lifetimes in clock units (the code's '7d' and '15m', scaled to the clock).
RefreshTTL == 2
AccessTTL == 1

\* Program constants: the lock threshold and the lock's length (2 hours, the
\* clock unit of the lockout being the hour).
MaxLoginAttempts == 5
LockDuration == 2

Procs == 1..NProc
Times == 0..MaxTime
Passwords == {"pwA", "pwB"}
\* What a login request carries as mfaCode: nothing, the current TOTP code, a
\* wrong six-digit code, or one of the eight-character backup codes.
MfaInputs == {"none", "totp", "wrong", "backup", "BACKUP"}

\* generateBackupCodes(count = 10): the model keeps the first NBackupCodes codes
\* of a configuration.
NBackupCodes == 2

\* speakeasy.generateSecret(): the secrets of successive MFA set-ups.
Secrets == {"s1", "s2"}

\* The six-digit code an authenticator holding the secret shows now.
TotpOf(secret) == IF secret = "s1" THEN "totp" ELSE "totp2"

\* What a client can send as an MFA code to the mfa routes: a current code of
\* either secret or six digits that are no current code.
MfaCodes == {"totp", "totp2", "wrong"}

\* generateBackupCode(): crypto.randomBytes(4).toString('hex').toUpperCase(),
\* eight characters; the i-th code of a configuration.
BackupCodeStrings ==
  <<"BACKUP", "BACKUP2", "BACKUP3", "BACKUP4", "BACKUP5",
    "BACKUP6", "BACKUP7", "BACKUP8", "BACKUP9", "BACKUP10">>

\* generateBackupCodes: the list of {code, used: false}
generateBackupCodes ==
  [i \in 1..NBackupCodes |-> [code |-> BackupCodeStrings[i], used |-> FALSE]]

\* String.prototype.toUpperCase on an MFA code: digits stay, letters are raised.
toUpperCase(mfa) == IF mfa = "backup" THEN "BACKUP" ELSE mfa

\* Two passwords of more than 72 bytes that pass every validator (no validator
\* bounds the length from above) and differ only after their 72nd byte.
LongPasswords == {"long72a", "long72b"}

\* Every valid password of the model.
ValidPasswords == Passwords \cup LongPasswords

\* The key bcrypt derives the hash from: the first 72 bytes of the password.
Truncate72(pw) == IF pw \in LongPasswords THEN "long72" ELSE pw

\* A password field holding the request's string unhashed.
Plaintext(pw) == <<"plain", pw>>

\* bcrypt.hash: an opaque value that is not the plaintext, computed from the
\* first 72 bytes of the password.
Hash(pw) == <<"bcrypt", Truncate72(pw)>>

\* userSchema.methods.comparePassword: bcrypt.compare(candidate, this.password)
comparePassword(candidate, stored) == Hash(candidate) = stored

\* String.prototype.toLowerCase on an email string.
toLowerCase(email) == IF email = "U2" THEN "u2" ELSE email

\* The unique index on email (userSchema.email, unique: true): an insert is
\* accepted when no stored document has exactly this email.
UniqueEmailIndexMissing(db, email) == TRUE

UniqueEmailIndexAllows(db, email) == ~db[email].exists

NoUser ==
  [exists |-> FALSE, password |-> <<>>, mfaEnabled |-> FALSE, mfaSecret |-> None,
   mfaBackupCodes |-> <<>>, refreshTokens |-> <<>>,
   loginAttempts |-> 0, lockUntil |-> Absent]

\* new User({email, password}) with the schema defaults, as stored by save().
NewUser(pw) == [NoUser EXCEPT !.exists = TRUE, !.password = Hash(pw)]

NoToken == [kind |-> "absent", uid |-> None, iat |-> 0]
ForgedToken == [kind |-> "forged", uid |-> "u1", iat |-> 0]

\* jwt.sign({userId}, JWT_REFRESH_SECRET, {expiresIn}): the string is a function
\* of the payload, the secret and the issue second (iat).
generateRefreshToken(userId, t) == [kind |-> "refresh", uid |-> userId, iat |-> t]

\* jwt.sign({userId}, JWT_ACCESS_SECRET, {expiresIn})
generateAccessToken(userId, t) == [kind |-> "access", uid |-> userId, iat |-> t]

\* jwt.verify(token, JWT_REFRESH_SECRET): signature and exp
verifyRefreshToken(tok, t) == tok.kind = "refresh" /\ t < tok.iat + RefreshTTL

\* jwt.verify(token, JWT_ACCESS_SECRET): signature and exp
verifyAccessToken(tok, t) == tok.kind = "access" /\ t < tok.iat + AccessTTL

getRefreshTokenExpiry(t) == t + RefreshTTL

\* The record pushed on user.refreshTokens.
TokenRecord(tok, t) == [token |-> tok, expiresAt |-> getRefreshTokenExpiry(t), isActive |-> TRUE]

\* userSchema.virtual('isLocked'): !!(this.lockUntil && this.lockUntil > Date.now())
isLocked(doc, t) == doc.lockUntil # Absent /\ doc.lockUntil > t

\* incLoginAttempts that resumes the count after an expired lock.
incLoginAttemptsResume(doc, stored, t) ==
  IF doc.loginAttempts + 1 >= MaxLoginAttempts /\ ~isLocked(doc, t)
  THEN [stored EXCEPT !.loginAttempts = @ + 1, !.lockUntil = t + LockDuration]
  ELSE [stored EXCEPT !.loginAttempts = @ + 1]

\* userSchema.methods.incLoginAttempts: the conditions are evaluated on the
\* request's copy (doc), the update is applied to the stored document.
incLoginAttempts(doc, stored, t) ==
  IF doc.lockUntil # Absent /\ doc.lockUntil < t
  THEN [stored EXCEPT !.lockUntil = Absent, !.loginAttempts = 1]
  ELSE IF doc.loginAttempts + 1 >= MaxLoginAttempts /\ ~isLocked(doc, t)
       THEN [stored EXCEPT !.loginAttempts = @ + 1, !.lockUntil = t + LockDuration]
       ELSE [stored EXCEPT !.loginAttempts = @ + 1]

\* resetLoginAttempts that forgets the lock.
resetLoginAttemptsCounterOnly(stored) == [stored EXCEPT !.loginAttempts = 0]

\* userSchema.methods.resetLoginAttempts: $unset loginAttempts and lockUntil (an
\* unset counter reads as its default, 0).
resetLoginAttempts(stored) == [stored EXCEPT !.loginAttempts = 0, !.lockUntil = Absent]

\* cleanupRefreshTokens' filter: tokenObj.isActive && tokenObj.expiresAt > new Date()
CleanTokens(list, t) == SelectSeq(list, LAMBDA rec : rec.isActive /\ rec.expiresAt > t)

\* A lookup that forgets the active flag.
RefreshRecordMatchesAnyState(rec, tok, t) == rec.token = tok /\ rec.expiresAt > t

\* refreshToken's find predicate.
RefreshRecordMatches(rec, tok, t) ==
  rec.token = tok /\ rec.isActive /\ rec.expiresAt > t

\* The refreshToken handler's decision on a presented token.
RefreshOutcome(tok, db, t) ==
  IF tok.kind = "absent" THEN "token_required"
  ELSE IF ~verifyRefreshToken(tok, t) THEN "invalid_token"
  ELSE IF ~db[tok.uid].exists THEN "user_not_found"
  ELSE IF ~\E i \in 1..Len(db[tok.uid].refreshTokens) :
             RefreshRecordMatches(db[tok.uid].refreshTokens[i], tok, t)
       THEN "invalid_or_expired"
       ELSE "access"

\* Array.prototype.findIndex(tokenObj => tokenObj.token === refreshToken); 0 for -1
FindTokenIndex(list, tok) ==
  IF \E i \in 1..Len(list) : list[i].token = tok
  THEN CHOOSE i \in 1..Len(list) :
         list[i].token = tok /\ \A j \in 1..(i - 1) : list[j].token # tok
  ELSE 0

\* A logout that flips the flag instead of clearing it.
LogoutFlagToggled(isActive) == ~isActive

\* logout: user.refreshTokens[tokenIndex].isActive = false
LogoutFlag(isActive) == FALSE

GuardOutcomeIgnoresLock(bearer, db, t) ==
  IF bearer.kind = "absent" THEN "no_token"
  ELSE IF ~verifyAccessToken(bearer, t) THEN "invalid_token"
  ELSE IF ~db[bearer.uid].exists THEN "user_not_found"
  ELSE "authorized"

\* A guard that trusts the token without looking its user up.
GuardOutcomeSkipsLookup(bearer, db, t) ==
  IF bearer.kind = "absent" THEN "no_token"
  ELSE IF ~verifyAccessToken(bearer, t) THEN "invalid_token"
  ELSE "authorized"

\* authMiddleware's decision on the bearer token of a protected request.
GuardOutcome(bearer, db, t) ==
  IF bearer.kind = "absent" THEN "no_token"
  ELSE IF ~verifyAccessToken(bearer, t) THEN "invalid_token"
  ELSE IF ~db[bearer.uid].exists THEN "user_not_found"
  ELSE IF isLocked(db[bearer.uid], t) THEN "locked"
  ELSE "authorized"

IdleProc ==
  [pc |-> "idle", op |-> None, userId |-> None, failKind |-> None, token |-> NoToken,
   doc |-> NoUser, idx |-> 0, stale |-> FALSE, arg |-> None]

NoResponse == [op |-> None, userId |-> None, resp |-> None, token |-> NoToken, note |-> None]

\* A response: the operation, the identity it resolved, the outcome, the token
\* it carried or returned, and what the handler had found.
Response(op, u, resp, tok, note) ==
  [op |-> op, userId |-> u, resp |-> resp, token |-> tok, note |-> note]

InFlight(q) == proc[q].pc # "idle"

\* Requests are anonymous: a new one takes the first free slot.
FreeSlot(p) == ~InFlight(p) /\ \A q \in Procs : q < p => InFlight(q)

\* The requests in flight that will still push a token on u's list.
PendingPushes(u) ==
  Cardinality({q \in Procs : proc[q].userId = u
                 /\ proc[q].pc \in {"reg_insert", "reg_token", "login_backup", "login_reset",
                                    "login_last", "login_cleanup", "login_token"}})

\* Mongoose's document version (__v): a save that replaces an array or appends
\* to it increments __v, and a save that replaces an array or sets an element by
\* index requires the __v it read.  Only equality of the stored __v with the
\* one a request read matters, so each request carries "stale": the stored __v
\* has moved since it read the document.  p's own save leaves p current.
AfterVersionBump(p, u, mine) ==
  [q \in Procs |->
     IF q = p THEN mine
     ELSE IF InFlight(q) /\ proc[q].userId = u THEN [proc[q] EXCEPT !.stale = TRUE]
     ELSE proc[q]]

(***************************************************************************)
(* getStats (current streak) and getAccountStats (consistency rate)        *)
(***************************************************************************)

\* 1000 * 60 * 60 * 24 milliseconds, in the hours that instants are counted in.
HoursPerDay == 24

\* if (currentStreak >= 365) break;
MaxStreakDays == 365

\* Math.min(100, consistencyRate)
RateCap == 100

\* The UTC day on which the statistics are asked for.
StatsToday == 400

\* The UTC hours of the day at which they are asked for.
NowHours == {0, 1, 12, 23}

\* The hour of its UTC day at which the first entry was written.
FirstEntryHours == {0, 23}

\* The lengths of the run of days with an entry.
RunLengths == {0, 1, 2, 3, 364, 365, 366}

\* The day on which clocks of the zone with daylight saving are set back.
TransitionDay == StatsToday - 1

\* The time zone of the server process: UTC, or a zone with daylight saving
\* time that is 2 hours ahead of UTC until 01:00 UTC of TransitionDay and 1 hour
\* ahead from then on.
ServerZones == {"UTC", "DST"}

Transition == HoursPerDay * TransitionDay + 1

\* The local wall-clock reading of an instant.
ToLocal(zone, t) ==
  IF zone = "UTC" THEN t ELSE IF t < Transition THEN t + 2 ELSE t + 1

\* The instant of a local wall-clock reading (the earlier one of a repeated hour).
FromLocal(zone, l) ==
  IF zone = "UTC" THEN l ELSE IF l - 2 < Transition THEN l - 2 ELSE l - 1

\* date.toISOString().split('T')[0]: the UTC day of the instant.
toISODate(date) == date \div HoursPerDay

\* date.toDateString(): the local day of the instant.
toDateString(zone, date) == ToLocal(zone, date) \div HoursPerDay

\* isToday(date): the local day of date is the local day of the clock.
isToday(zone, date, t) == toDateString(zone, date) = toDateString(zone, t)

\* checkDate.setDate(checkDate.getDate() - 1): the same local wall-clock time
\* on the previous local day.
setDatePrevious(zone, date) == FromLocal(zone, ToLocal(zone, date) - HoursPerDay)

\* Math.floor((new Date() - firstEntry.entryDate) / (1000 * 60 * 60 * 24))
DaysSinceFirstEntry(days, firstHour, t) ==
  IF days = {} THEN 0
  ELSE LET first == CHOOSE d \in days : \A e \in days : d <= e
       IN  (t - (HoursPerDay * first + firstHour)) \div HoursPerDay

\* Math.round((a / b) * 100) for a >= 0 and b > 0.
RoundPercent(a, b) == (2 * 100 * a + b) \div (2 * b)

\* consistencyRate as sent: daysSinceFirstEntry > 0 ? Math.round(...) : 0, under
\* Math.min(100, .).
ConsistencyRate(totalEntries, daysSinceFirstEntry) ==
  LET consistencyRate ==
        IF daysSinceFirstEntry > 0
        THEN RoundPercent(totalEntries, daysSinceFirstEntry + 1)
        ELSE 0
  IN  IF consistencyRate < RateCap THEN consistencyRate ELSE RateCap

\* No statistics request.
NoStats ==
  [now |-> 0, zone |-> "UTC", days |-> {}, firstHour |-> 0, pc |-> "new",
   checkDate |-> 0, currentStreak |-> 0, consistencyRate |-> Absent,
   examined |-> 0]

\* The entry days of a user: a run of runLen days that ends on lastDay, and
\* possibly one more entry before a one-day gap.
EntryDays(lastDay, runLen, far) ==
  {lastDay - k : k \in 0..(runLen - 1)}
    \cup (IF far THEN {lastDay - runLen - 1} ELSE {})

\* GET /entries/stats up to the loop: let currentStreak = 0; let checkDate = new Date();
GetStatsBegin ==
  /\ stats.pc = "new"
  /\ stats' = [stats EXCEPT !.pc = "walk", !.checkDate = stats.now, !.currentStreak = 0,
                            !.examined = 0]
  /\ UNCHANGED <<now, users, proc, last, issuedRefresh, issuedAccess, fifthAt, started, log>>
  /\ UNCHANGED <<ledgerVars, clientVars>>

\* One turn of the while loop of getStats: JournalEntry.findOne({userId,
\* dateString}) for the UTC day of checkDate (one more day-key examined), then a
\* step back or the end.
GetStatsStep ==
  /\ stats.pc = "walk"
  /\ stats' =
       IF toISODate(stats.checkDate) \notin stats.days
       THEN IF isToday(stats.zone, stats.checkDate, stats.now)
            THEN [stats EXCEPT !.checkDate = setDatePrevious(stats.zone, stats.checkDate),
                               !.examined = @ + 1]
            ELSE [stats EXCEPT !.pc = "done", !.examined = @ + 1]
       ELSE [stats EXCEPT !.currentStreak = @ + 1,
                          !.examined = @ + 1,
                          !.checkDate = setDatePrevious(stats.zone, stats.checkDate),
                          !.pc = IF stats.currentStreak + 1 >= MaxStreakDays
                                 THEN "done" ELSE "walk"]
  /\ UNCHANGED <<now, users, proc, last, issuedRefresh, issuedAccess, fifthAt, started, log>>
  /\ UNCHANGED <<ledgerVars, clientVars>>

\* GET /user/stats: the consistency rate of the user's entries at the clock.
GetAccountStats ==
  /\ stats.consistencyRate = Absent
  /\ stats' = [stats EXCEPT !.consistencyRate =
                 ConsistencyRate(Cardinality(stats.days),
                                 DaysSinceFirstEntry(stats.days, stats.firstHour, stats.now))]
  /\ UNCHANGED <<now, users, proc, last, issuedRefresh, issuedAccess, fifthAt, started, log>>
  /\ UNCHANGED <<ledgerVars, clientVars>>

Init ==
  /\ clock = 0
  /\ entries = {}
  /\ limiterHits = [ip \in ClientIPs |-> 0]
  /\ limiterStart = [ip \in ClientIPs |-> 0]
  /\ ereq = [r \in EntryReqs |-> IdleEntryReq]
  /\ now = 0
  /\ users = [u \in EmailStrings |->
                IF u = "u1"
                THEN [NewUser("pwA") EXCEPT !.mfaEnabled = TRUE, !.mfaSecret = "s1",
                                            !.mfaBackupCodes = generateBackupCodes]
                ELSE NoUser]
  /\ proc = [p \in Procs |-> IdleProc]
  /\ last = NoResponse
  /\ issuedRefresh = {}
  /\ issuedAccess = {}
  /\ started = 0
  /\ fifthAt = [u \in Identities |-> Absent]
  /\ log = {}
  /\ stats = NoStats
  /\ signup = NoSignup
  /\ timer = NewTimer

\* The statistics of a user whose entries, one per UTC day, were written up to
\* the clock; the server runs in one of the zones.
InitStats ==
  /\ clock = 0
  /\ entries = {}
  /\ limiterHits = [ip \in ClientIPs |-> 0]
  /\ limiterStart = [ip \in ClientIPs |-> 0]
  /\ ereq = [r \in EntryReqs |-> IdleEntryReq]
  /\ now = 0
  /\ users = [u \in EmailStrings |-> NoUser]
  /\ proc = [p \in Procs |-> IdleProc]
  /\ last = NoResponse
  /\ issuedRefresh = {}
  /\ issuedAccess = {}
  /\ started = 0
  /\ fifthAt = [u \in Identities |-> Absent]
  /\ log = {}
  /\ \E hour \in NowHours, zone \in ServerZones, firstHour \in FirstEntryHours,
        back \in 0..2, runLen \in RunLengths, far \in BOOLEAN :
       LET t == HoursPerDay * StatsToday + hour
           days == EntryDays(StatsToday - back, runLen, far)
       IN  /\ \A d \in days : HoursPerDay * d + firstHour <= t
           /\ stats = [NoStats EXCEPT !.now = t, !.zone = zone, !.days = days,
                                      !.firstHour = firstHour]
  /\ signup = NoSignup
  /\ timer = NewTimer

\* A client has submitted a password to POST /register.
InitPolicy ==
  /\ clock = 0
  /\ entries = {}
  /\ limiterHits = [ip \in ClientIPs |-> 0]
  /\ limiterStart = [ip \in ClientIPs |-> 0]
  /\ ereq = [r \in EntryReqs |-> IdleEntryReq]
  /\ now = 0
  /\ users = [u \in EmailStrings |-> NoUser]
  /\ proc = [p \in Procs |-> IdleProc]
  /\ last = NoResponse
  /\ issuedRefresh = {}
  /\ issuedAccess = {}
  /\ started = 0
  /\ fifthAt = [u \in Identities |-> Absent]
  /\ log = {}
  /\ stats = NoStats
  /\ timer = NewTimer
  /\ \E password \in PasswordTexts :
       signup = [NoSignup EXCEPT !.password = password, !.pc = "submitted"]

(***************************************************************************)
(* register                                                                *)
(***************************************************************************)

\* register up to User.findOne({email}): an existing account is refused.
RegisterBegin(p, u, pw) ==
  /\ FreeSlot(p)
  /\ PendingPushes(u) + Len(CleanTokens(users[u].refreshTokens, now)) < MaxTokens
  /\ IF users[u].exists
     THEN /\ proc' = proc
          /\ last' = Response("register", u, "email_exists", NoToken, None)
     ELSE /\ proc' = [proc EXCEPT ![p] =
                        [IdleProc EXCEPT !.pc = "reg_insert", !.op = "register",
                                         !.userId = u, !.doc = NewUser(pw),
                                         !.arg = pw]]
          /\ last' = last
  /\ UNCHANGED <<now, users, issuedRefresh, issuedAccess, fifthAt>>
  /\ UNCHANGED <<ledgerVars, log, stats, clientVars>>

\* await user.save(): the insert, against the unique index on email; the
\* duplicate-key error falls into the catch block (500).
RegisterInsert(p) ==
  /\ proc[p].pc = "reg_insert"
  /\ LET u == proc[p].userId
     IN  IF ~UniqueEmailIndexAllows(users, u)
         THEN /\ proc' = [proc EXCEPT ![p] = IdleProc]
              /\ last' = Response("register", u, "error", NoToken, None)
              /\ users' = users
         ELSE /\ users' = [users EXCEPT ![u] = proc[p].doc]
              /\ proc' = [proc EXCEPT ![p].pc = "reg_token"]
              /\ last' = last
  /\ UNCHANGED <<now, issuedRefresh, issuedAccess, fifthAt, started>>
  /\ UNCHANGED <<ledgerVars, log, stats, clientVars>>

\* generateTokenPair, user.refreshTokens.push(...), await user.save(): a $push.
RegisterStoreToken(p) ==
  /\ proc[p].pc = "reg_token"
  /\ LET u == proc[p].userId
         tok == generateRefreshToken(u, now)
     IN  IF users[u].exists
         THEN /\ users' = [users EXCEPT ![u].refreshTokens = Append(@, TokenRecord(tok, now))]
              /\ proc' = AfterVersionBump(p, u, IdleProc)
              /\ last' = Response("register", u, "tokens", tok, None)
              /\ issuedRefresh' = issuedRefresh \cup {tok}
              /\ issuedAccess' = issuedAccess \cup {generateAccessToken(u, now)}
         ELSE /\ users' = users
              /\ proc' = [proc EXCEPT ![p] = IdleProc]
              /\ last' = Response("register", u, "error", NoToken, "not_found")
              /\ UNCHANGED <<issuedRefresh, issuedAccess>>
  /\ UNCHANGED <<now, fifthAt, started>>
  /\ UNCHANGED <<ledgerVars, log, stats, clientVars>>

(***************************************************************************)
(* login                                                                   *)
(***************************************************************************)

\* isLength({min: 6, max: 6}).isNumeric()
IsSixDigits(mfa) == mfa \in {"totp", "totp2", "wrong"}

loginValidationAdmitsBackupCodes(mfa) == TRUE

\* loginValidation: mfaCode is optional and, when present, must be six digits.
loginValidation(mfa) == mfa = "none" \/ IsSixDigits(mfa)

TotpVerifiesAnyCode(secret, mfa) == secret # None /\ IsSixDigits(mfa)

\* speakeasy.totp.verify({secret, token}): the token is a current code of the secret.
TotpVerifies(secret, mfa) == secret # None /\ mfa = TotpOf(secret)

\* user.mfaBackupCodes.findIndex(bc => bc.code === mfaCode.toUpperCase() && !bc.used);
\* 0 for -1
FindBackupCode(codes, mfa) ==
  IF \E i \in 1..Len(codes) : codes[i].code = toUpperCase(mfa) /\ ~codes[i].used
  THEN CHOOSE i \in 1..Len(codes) :
         /\ codes[i].code = toUpperCase(mfa) /\ ~codes[i].used
         /\ \A j \in 1..(i - 1) : ~(codes[j].code = toUpperCase(mfa) /\ ~codes[j].used)
  ELSE 0

\* The login handler's decision from validation to its first write.
LoginOutcome(user, pw, mfa, t) ==
  IF ~loginValidation(mfa) THEN "validation"
  ELSE IF ~user.exists THEN "invalid_credentials"
  ELSE IF isLocked(user, t) THEN "locked"
  ELSE IF ~comparePassword(pw, user.password) THEN "fail_password"
  ELSE IF user.mfaEnabled /\ mfa = "none" THEN "mfa_required"
  ELSE IF user.mfaEnabled /\ ~TotpVerifies(user.mfaSecret, mfa)
               /\ FindBackupCode(user.mfaBackupCodes, mfa) = 0 THEN "fail_mfa"
  ELSE IF user.mfaEnabled /\ ~TotpVerifies(user.mfaSecret, mfa) THEN "backup"
  ELSE "verified"

\* A console line: its label, the email and the password field it prints (None
\* when it prints no password field).
LogLine(tag, email, inputPassword) ==
  [tag |-> tag, email |-> email, inputPassword |-> inputPassword]

\* The console lines login writes up to its first write: 'LOGIN ATTEMPT' with the
\* email and hasPassword, and, for a request that passed validation, found its
\* user and found it not locked, 'PASSWORD DEBUG' with inputPassword: password
\* and the stored hash.
LoginLogLines(user, u, pw, mfa, t) ==
  {LogLine("LOGIN ATTEMPT", u, None)}
    \cup (IF LoginOutcome(user, pw, mfa, t) \in {"validation", "invalid_credentials", "locked"}
          THEN {}
          ELSE {LogLine("PASSWORD DEBUG", u, pw)})

\* login from validation to the first write: User.findOne({email}), the lock
\* check, comparePassword and the second factor. The console lines of these steps
\* are LoginLogLines; the arrival that runs this step says what becomes of them.
LoginBegin(p, u, pw, mfa) ==
  /\ FreeSlot(p)
  /\ LoginOutcome(users[u], pw, mfa, now) \in {"verified", "backup"}
       => PendingPushes(u) + Len(CleanTokens(users[u].refreshTokens, now)) < MaxTokens
  /\ LET user == users[u]
         start == [IdleProc EXCEPT !.op = "login", !.userId = u]
         counters == [NoUser EXCEPT !.exists = TRUE, !.loginAttempts = user.loginAttempts,
                                    !.lockUntil = user.lockUntil]
         tokens == [counters EXCEPT !.refreshTokens = user.refreshTokens]
         outcome == LoginOutcome(user, pw, mfa, now)
     IN  CASE outcome = "fail_password" ->
                /\ proc' = [proc EXCEPT ![p] =
                     [start EXCEPT !.pc = "login_inc", !.failKind = "invalid_credentials",
                                   !.doc = counters]]
                /\ last' = last
           [] outcome = "fail_mfa" ->
                /\ proc' = [proc EXCEPT ![p] =
                     [start EXCEPT !.pc = "login_inc", !.failKind = "invalid_mfa",
                                   !.doc = counters]]
                /\ last' = last
           [] outcome = "backup" ->
                /\ proc' = [proc EXCEPT ![p] =
                     [start EXCEPT !.pc = "login_backup", !.doc = tokens,
                                   !.idx = FindBackupCode(user.mfaBackupCodes, mfa)]]
                /\ last' = last
           [] outcome = "verified" ->
                /\ proc' = [proc EXCEPT ![p] = [start EXCEPT !.pc = "login_reset", !.doc = tokens]]
                /\ last' = last
           [] OTHER ->
                /\ proc' = proc
                /\ last' = Response("login", u, outcome, NoToken, None)
  /\ UNCHANGED <<now, users, issuedRefresh, issuedAccess, fifthAt>>
  /\ UNCHANGED <<ledgerVars, stats, clientVars>>

\* await user.incLoginAttempts(), then the 401.
LoginIncAttempts(p) ==
  /\ proc[p].pc = "login_inc"
  /\ LET u == proc[p].userId
         after == incLoginAttempts(proc[p].doc, users[u], now)
         restart == proc[p].doc.lockUntil # Absent /\ proc[p].doc.lockUntil < now
     IN  /\ users' = [users EXCEPT ![u] = IF users[u].exists THEN after ELSE @]
         /\ fifthAt' = [fifthAt EXCEPT ![u] =
                          IF ~users[u].exists THEN @
                          ELSE IF after.loginAttempts < MaxLoginAttempts THEN Absent
                          ELSE IF users[u].loginAttempts < MaxLoginAttempts THEN now
                          ELSE @]
         /\ last' = Response("login", u, proc[p].failKind, NoToken,
                             IF restart THEN "restart" ELSE "increment")
  /\ proc' = [proc EXCEPT ![p] = IdleProc]
  /\ UNCHANGED <<now, issuedRefresh, issuedAccess, started>>
  /\ UNCHANGED <<ledgerVars, log, stats, clientVars>>

\* user.mfaBackupCodes[backupCodeIndex].used = true; await user.save(): a $set
\* of mfaBackupCodes.<index>.used under the document version read (a changed
\* __v is a VersionError, answered 500).
LoginUseBackupCode(p) ==
  /\ proc[p].pc = "login_backup"
  /\ LET u == proc[p].userId
         i == proc[p].idx
     IN  IF users[u].exists /\ ~proc[p].stale /\ i <= Len(users[u].mfaBackupCodes)
         THEN /\ users' = [users EXCEPT ![u].mfaBackupCodes[i].used = TRUE]
              /\ proc' = [proc EXCEPT ![p].pc = "login_reset"]
              /\ last' = last
         ELSE /\ users' = users
              /\ proc' = [proc EXCEPT ![p] = IdleProc]
              /\ last' = Response("login", u, "error", NoToken, "version")
  /\ UNCHANGED <<now, issuedRefresh, issuedAccess, fifthAt, started>>
  /\ UNCHANGED <<ledgerVars, log, stats, clientVars>>

\* await user.resetLoginAttempts()
LoginResetAttempts(p) ==
  /\ proc[p].pc = "login_reset"
  /\ LET u == proc[p].userId
     IN  /\ users' = [users EXCEPT ![u] =
                        IF users[u].exists THEN resetLoginAttempts(@) ELSE @]
         /\ fifthAt' = [fifthAt EXCEPT ![u] =
                          IF users'[u].loginAttempts < MaxLoginAttempts THEN Absent ELSE @]
  /\ proc' = [proc EXCEPT ![p].pc = "login_last"]
  /\ UNCHANGED <<now, last, issuedRefresh, issuedAccess, started>>
  /\ UNCHANGED <<ledgerVars, log, stats, clientVars>>

\* The login handler from the verified password on: the save that marks the
\* backup code used when the second factor was a backup code, and
\* resetLoginAttempts.
LoginAfterFactors(p) ==
  IF proc[p].pc = "login_backup" THEN LoginUseBackupCode(p) ELSE LoginResetAttempts(p)

\* user.lastLogin = new Date(); await user.save(): a $set of the one modified
\* path, lastLogin, which no handler reads and the model does not keep; the
\* save of a document that is gone is a DocumentNotFoundError, answered 500.
LoginSaveLastLogin(p) ==
  /\ proc[p].pc = "login_last"
  /\ IF users[proc[p].userId].exists
     THEN /\ proc' = [proc EXCEPT ![p].pc = "login_cleanup"]
          /\ last' = last
     ELSE /\ proc' = [proc EXCEPT ![p] = IdleProc]
          /\ last' = Response("login", proc[p].userId, "error", NoToken, "not_found")
  /\ UNCHANGED <<now, users, issuedRefresh, issuedAccess, fifthAt, started>>
  /\ UNCHANGED <<ledgerVars, log, stats, clientVars>>

\* await user.cleanupRefreshTokens(): the filtered copy replaces the array and
\* save() writes it when it differs: a $set of the whole array, which the
\* document version guards (a changed __v is a VersionError, answered 500).
LoginCleanupTokens(p) ==
  /\ proc[p].pc = "login_cleanup"
  /\ LET u == proc[p].userId
         doc == proc[p].doc
         kept == CleanTokens(doc.refreshTokens, now)
     IN  IF kept = doc.refreshTokens
         THEN /\ users' = users
              /\ proc' = [proc EXCEPT ![p].pc = "login_token"]
              /\ last' = last
         ELSE IF users[u].exists /\ ~proc[p].stale
              THEN /\ users' = [users EXCEPT ![u].refreshTokens = kept]
                   /\ proc' = AfterVersionBump(p, u,
                                [proc[p] EXCEPT !.pc = "login_token",
                                                !.doc.refreshTokens = kept])
                   /\ last' = last
              ELSE /\ users' = users
                   /\ proc' = [proc EXCEPT ![p] = IdleProc]
                   /\ last' = Response("login", u, "error", NoToken, "version")
  /\ UNCHANGED <<now, issuedRefresh, issuedAccess, fifthAt, started>>
  /\ UNCHANGED <<ledgerVars, log, stats, clientVars>>

\* generateTokenPair, user.refreshTokens.push(...), await user.save(): a $push,
\* then the response with both tokens.
LoginStoreToken(p) ==
  /\ proc[p].pc = "login_token"
  /\ LET u == proc[p].userId
         tok == generateRefreshToken(u, now)
     IN  IF users[u].exists
         THEN /\ users' = [users EXCEPT ![u].refreshTokens = Append(@, TokenRecord(tok, now))]
              /\ proc' = AfterVersionBump(p, u, IdleProc)
              /\ last' = Response("login", u, "tokens", tok,
                                  IF proc[p].doc.lockUntil # Absent THEN "after_lock"
                                  ELSE IF proc[p].doc.loginAttempts > 0 THEN "after_failures"
                                  ELSE None)
              /\ issuedRefresh' = issuedRefresh \cup {tok}
              /\ issuedAccess' = issuedAccess \cup {generateAccessToken(u, now)}
         ELSE /\ users' = users
              /\ proc' = [proc EXCEPT ![p] = IdleProc]
              /\ last' = Response("login", u, "error", NoToken, "not_found")
              /\ UNCHANGED <<issuedRefresh, issuedAccess>>
  /\ UNCHANGED <<now, fifthAt, started>>
  /\ UNCHANGED <<ledgerVars, log, stats, clientVars>>

(***************************************************************************)
(* refreshToken                                                            *)
(***************************************************************************)

\* A renewal that rotates: the record of the presented token is retired.
RefreshTokenRotating(p, tok) ==
  /\ FreeSlot(p)
  /\ LET outcome == RefreshOutcome(tok, users, now)
     IN  IF outcome = "access"
         THEN /\ last' = Response("refresh", tok.uid, outcome, tok, None)
              /\ issuedAccess' = issuedAccess \cup {generateAccessToken(tok.uid, now)}
              /\ users' = [users EXCEPT ![tok.uid].refreshTokens =
                             [i \in 1..Len(@) |->
                                IF @[i].token = tok THEN [@[i] EXCEPT !.isActive = FALSE]
                                ELSE @[i]]]
         ELSE /\ last' = Response("refresh", None, outcome, tok, None)
              /\ issuedAccess' = issuedAccess
              /\ users' = users
  /\ UNCHANGED <<now, proc, issuedRefresh, fifthAt>>
  /\ UNCHANGED <<ledgerVars, log, stats, clientVars>>

\* The whole handler: verifyRefreshToken, User.findById, the record lookup and
\* generateAccessToken.
RefreshToken(p, tok) ==
  /\ FreeSlot(p)
  /\ LET outcome == RefreshOutcome(tok, users, now)
     IN  IF outcome = "access"
         THEN /\ last' = Response("refresh", tok.uid, outcome, tok, None)
              /\ issuedAccess' = issuedAccess \cup {generateAccessToken(tok.uid, now)}
         ELSE /\ last' = Response("refresh", None, outcome, tok, None)
              /\ issuedAccess' = issuedAccess
  /\ UNCHANGED <<now, users, proc, issuedRefresh, fifthAt>>
  /\ UNCHANGED <<ledgerVars, log, stats, clientVars>>

(***************************************************************************)
(* logout                                                                  *)
(***************************************************************************)

\* POST /logout: authMiddleware; a request without refreshToken in its body is
\* answered at once.
LogoutGuard(p, bearer, tok) ==
  /\ FreeSlot(p)
  /\ LET outcome == GuardOutcome(bearer, users, now)
     IN  IF outcome # "authorized"
         THEN /\ proc' = proc
              /\ last' = Response("logout", None, outcome, tok, None)
         ELSE IF tok.kind = "absent"
              THEN /\ proc' = proc
                   /\ last' = Response("logout", bearer.uid, "logged_out", tok, "no_body")
              ELSE /\ proc' = [proc EXCEPT ![p] =
                                 [IdleProc EXCEPT !.pc = "logout_find", !.op = "logout",
                                                  !.userId = bearer.uid, !.token = tok]]
                   /\ last' = last
  /\ UNCHANGED <<now, users, issuedRefresh, issuedAccess, fifthAt>>
  /\ UNCHANGED <<ledgerVars, log, stats, clientVars>>

\* User.findById(userId) and the findIndex on its token list.
LogoutFind(p) ==
  /\ proc[p].pc = "logout_find"
  /\ LET u == proc[p].userId
         i == FindTokenIndex(users[u].refreshTokens, proc[p].token)
     IN  IF ~users[u].exists \/ i = 0
         THEN /\ proc' = [proc EXCEPT ![p] = IdleProc]
              /\ last' = Response("logout", u, "logged_out", proc[p].token, "absent")
         ELSE /\ proc' = [proc EXCEPT ![p].pc = "logout_save", ![p].doc = [NoUser EXCEPT !.exists = TRUE,
                                                 !.refreshTokens = users[u].refreshTokens],
                                      ![p].idx = i, ![p].stale = FALSE]
              /\ last' = last
  /\ UNCHANGED <<now, users, issuedRefresh, issuedAccess, fifthAt, started>>
  /\ UNCHANGED <<ledgerVars, log, stats, clientVars>>

\* user.refreshTokens[tokenIndex].isActive = false; await user.save(): when the
\* flag changes, a $set of refreshTokens.<index>.isActive under the document
\* version read (a changed __v is a VersionError, answered 500).
LogoutSave(p) ==
  /\ proc[p].pc = "logout_save"
  /\ LET u == proc[p].userId
         i == proc[p].idx
         doc == proc[p].doc
         flag == LogoutFlag(doc.refreshTokens[i].isActive)
     IN  IF flag = doc.refreshTokens[i].isActive
         THEN /\ users' = users
              /\ last' = Response("logout", u, "logged_out", proc[p].token, "inactive")
         ELSE IF users[u].exists /\ ~proc[p].stale
              THEN /\ users' = [users EXCEPT ![u].refreshTokens[i].isActive = flag]
                   /\ last' = Response("logout", u, "logged_out", proc[p].token, "active")
              ELSE /\ users' = users
                        /\ last' = Response("logout", u, "error", proc[p].token, "version")
  /\ proc' = [proc EXCEPT ![p] = IdleProc]
  /\ UNCHANGED <<now, issuedRefresh, issuedAccess, fifthAt, started>>
  /\ UNCHANGED <<ledgerVars, log, stats, clientVars>>

(***************************************************************************)
(* changePassword                                                          *)
(***************************************************************************)

\* What a client can send as newPassword: the passwords above, which meet the
\* strength policy, and one that does not.
NewPasswords == Passwords \cup {"weak"}

\* changePasswordValidation on newPassword and validatePassword: at least 8
\* characters with a lowercase letter, an uppercase letter, a digit and a symbol.
validatePassword(pw) == pw # "weak"

\* PUT /password: authMiddleware, then changePasswordValidation as read by the
\* handler's validationResult.
ChangePasswordGuard(p, bearer, cur, new) ==
  /\ FreeSlot(p)
  /\ LET outcome == GuardOutcome(bearer, users, now)
     IN  IF outcome # "authorized"
         THEN /\ proc' = proc
              /\ last' = Response("changePassword", None, outcome, NoToken, None)
         ELSE IF ~validatePassword(new)
              THEN /\ proc' = proc
                   /\ last' = Response("changePassword", bearer.uid, "validation", NoToken, None)
              ELSE /\ proc' = [proc EXCEPT ![p] =
                                 [IdleProc EXCEPT !.pc = "cp_find", !.op = "changePassword",
                                                  !.userId = bearer.uid, !.arg = <<cur, new>>]]
                   /\ last' = last
  /\ UNCHANGED <<now, users, issuedRefresh, issuedAccess, fifthAt>>
  /\ UNCHANGED <<ledgerVars, log, stats, clientVars>>

\* A decision that does not verify the current password.
ChangePasswordOutcomeAnyCurrent(user, cur, new) ==
  IF ~user.exists THEN "user_not_found"
  ELSE IF ~validatePassword(new) THEN "weak_password"
  ELSE IF comparePassword(new, user.password) THEN "same_password"
  ELSE "proceed"

\* The decision of changePassword on the document it found.
ChangePasswordOutcome(user, cur, new) ==
  IF ~user.exists THEN "user_not_found"
  ELSE IF ~comparePassword(cur, user.password) THEN "invalid_password"
  ELSE IF ~validatePassword(new) THEN "weak_password"
  ELSE IF comparePassword(new, user.password) THEN "same_password"
  ELSE "proceed"

\* User.findById(userId), comparePassword(currentPassword), validatePassword and
\* comparePassword(newPassword).
ChangePasswordFind(p) ==
  /\ proc[p].pc = "cp_find"
  /\ LET u == proc[p].userId
         outcome == ChangePasswordOutcome(users[u], proc[p].arg[1], proc[p].arg[2])
     IN  IF outcome # "proceed"
         THEN /\ proc' = [proc EXCEPT ![p] = IdleProc]
              /\ last' = Response("changePassword", u, outcome, NoToken, None)
         ELSE /\ proc' = [proc EXCEPT ![p].pc = "cp_save", ![p].stale = FALSE,
                                      ![p].doc = [NoUser EXCEPT !.exists = TRUE,
                                                    !.refreshTokens = users[u].refreshTokens]]
              /\ last' = last
  /\ UNCHANGED <<now, users, issuedRefresh, issuedAccess, fifthAt, started>>
  /\ UNCHANGED <<ledgerVars, log, stats, clientVars>>

\* user.password = newPassword; user.refreshTokens = []; await user.save(): the
\* pre-save hook hashes the password; save() writes the modified paths, and
\* refreshTokens is one only when the list read was not empty already: then the
\* update is a $set of the whole array, guarded by the document version (a
\* changed __v is a VersionError, answered 500).
ChangePasswordSave(p) ==
  /\ proc[p].pc = "cp_save"
  /\ LET u == proc[p].userId
         new == proc[p].arg[2]
     IN  IF ~users[u].exists
         THEN /\ users' = users
              /\ proc' = [proc EXCEPT ![p] = IdleProc]
              /\ last' = Response("changePassword", u, "error", NoToken, "not_found")
         ELSE IF proc[p].doc.refreshTokens = <<>>
         THEN /\ users' = [users EXCEPT ![u].password = Hash(new)]
              /\ proc' = [proc EXCEPT ![p] = IdleProc]
              /\ last' = Response("changePassword", u, "password_changed", NoToken, "password_only")
         ELSE IF ~proc[p].stale
         THEN /\ users' = [users EXCEPT ![u].password = Hash(new), ![u].refreshTokens = <<>>]
              /\ proc' = AfterVersionBump(p, u, IdleProc)
              /\ last' = Response("changePassword", u, "password_changed", NoToken, None)
         ELSE /\ users' = users
              /\ proc' = [proc EXCEPT ![p] = IdleProc]
              /\ last' = Response("changePassword", u, "error", NoToken, "version")
  /\ UNCHANGED <<now, issuedRefresh, issuedAccess, fifthAt, started>>
  /\ UNCHANGED <<ledgerVars, log, stats, clientVars>>

(***************************************************************************)
(* setupMFA, verifyMFA, disableMFA                                         *)
(***************************************************************************)

\* What a verifyMFA or disableMFA request carries as code: nothing, a current
\* code of one of the secrets, or a six-digit code that is current for none.
\* The routes' validators run, but these handlers never look at their result.
CodeInputs == {"none"} \cup MfaCodes

\* The MFA fields of the document a handler read.
MfaCopy(user) ==
  [NoUser EXCEPT !.exists = TRUE, !.mfaEnabled = user.mfaEnabled,
                 !.mfaSecret = user.mfaSecret, !.mfaBackupCodes = user.mfaBackupCodes]

\* POST /mfa/setup up to the handler's first await: authMiddleware.
SetupMFAGuard(p, bearer) ==
  /\ FreeSlot(p)
  /\ LET outcome == GuardOutcome(bearer, users, now)
     IN  IF outcome # "authorized"
         THEN /\ proc' = proc
              /\ last' = Response("setupMFA", None, outcome, NoToken, None)
         ELSE /\ proc' = [proc EXCEPT ![p] =
                            [IdleProc EXCEPT !.pc = "setup_find", !.op = "setupMFA",
                                             !.userId = bearer.uid]]
              /\ last' = last
  /\ UNCHANGED <<now, users, issuedRefresh, issuedAccess, fifthAt>>
  /\ UNCHANGED <<ledgerVars, log, stats, clientVars>>

\* setupMFA: User.findById and the checks on the document.
SetupMFAFind(p) ==
  /\ proc[p].pc = "setup_find"
  /\ LET u == proc[p].userId
     IN  IF ~users[u].exists
         THEN /\ proc' = [proc EXCEPT ![p] = IdleProc]
              /\ last' = Response("setupMFA", u, "user_not_found", NoToken, None)
         ELSE IF users[u].mfaEnabled
         THEN /\ proc' = [proc EXCEPT ![p] = IdleProc]
              /\ last' = Response("setupMFA", u, "already_enabled", NoToken, None)
         ELSE /\ proc' = [proc EXCEPT ![p].pc = "setup_save", ![p].stale = FALSE,
                                      ![p].doc = MfaCopy(users[u])]
              /\ last' = last
  /\ UNCHANGED <<now, users, issuedRefresh, issuedAccess, fifthAt, started>>
  /\ UNCHANGED <<ledgerVars, log, stats, clientVars>>

\* setupMFA after QRCode.toDataURL: user.mfaSecret = secret.base32;
\* user.mfaBackupCodes = backupCodes; await user.save().  The secret is a fresh
\* random one; the array is replaced, so the update is guarded by the document
\* version and increments it (a changed __v is a VersionError, answered 500).
SetupMFASave(p) ==
  /\ proc[p].pc = "setup_save"
  /\ LET u == proc[p].userId
     IN  IF users[u].exists /\ ~proc[p].stale
         THEN \E secret \in Secrets \ {proc[p].doc.mfaSecret} :
                /\ users' = [users EXCEPT ![u].mfaSecret = secret,
                                          ![u].mfaBackupCodes = generateBackupCodes]
                /\ proc' = AfterVersionBump(p, u, IdleProc)
                /\ last' = Response("setupMFA", u, "mfa_setup", NoToken, secret)
         ELSE /\ users' = users
              /\ proc' = [proc EXCEPT ![p] = IdleProc]
              /\ last' = Response("setupMFA", u, "error", NoToken,
                                  IF users[u].exists THEN "version" ELSE "not_found")
  /\ UNCHANGED <<now, issuedRefresh, issuedAccess, fifthAt, started>>
  /\ UNCHANGED <<ledgerVars, log, stats, clientVars>>

\* POST /mfa/verify up to the handler's first await: authMiddleware.
VerifyMFAGuard(p, bearer, code) ==
  /\ FreeSlot(p)
  /\ LET outcome == GuardOutcome(bearer, users, now)
     IN  IF outcome # "authorized"
         THEN /\ proc' = proc
              /\ last' = Response("verifyMFA", None, outcome, NoToken, None)
         ELSE /\ proc' = [proc EXCEPT ![p] =
                            [IdleProc EXCEPT !.pc = "verify_find", !.op = "verifyMFA",
                                             !.userId = bearer.uid, !.arg = code]]
              /\ last' = last
  /\ UNCHANGED <<now, users, issuedRefresh, issuedAccess, fifthAt>>
  /\ UNCHANGED <<ledgerVars, log, stats, clientVars>>

VerifyMFAOutcomeAnyCode(user, code) ==
  IF ~user.exists \/ user.mfaSecret = None THEN "setup_not_found"
  ELSE "proceed"

\* verifyMFA's decision on the document it found.
VerifyMFAOutcome(user, code) ==
  IF ~user.exists \/ user.mfaSecret = None THEN "setup_not_found"
  ELSE IF ~TotpVerifies(user.mfaSecret, code) THEN "invalid_mfa"
  ELSE "proceed"

\* verifyMFA: User.findById and speakeasy.totp.verify.
VerifyMFAFind(p) ==
  /\ proc[p].pc = "verify_find"
  /\ LET u == proc[p].userId
         outcome == VerifyMFAOutcome(users[u], proc[p].arg)
     IN  IF outcome # "proceed"
         THEN /\ proc' = [proc EXCEPT ![p] = IdleProc]
              /\ last' = Response("verifyMFA", u, outcome, NoToken, None)
         ELSE /\ proc' = [proc EXCEPT ![p].pc = "verify_save", ![p].stale = FALSE,
                                      ![p].doc = MfaCopy(users[u])]
              /\ last' = last
  /\ UNCHANGED <<now, users, issuedRefresh, issuedAccess, fifthAt, started>>
  /\ UNCHANGED <<ledgerVars, log, stats, clientVars>>

\* user.mfaEnabled = true; await user.save(): a $set of mfaEnabled when the
\* document read had it false, nothing otherwise; the save of a document that is
\* gone is a DocumentNotFoundError, answered 500.
VerifyMFASave(p) ==
  /\ proc[p].pc = "verify_save"
  /\ LET u == proc[p].userId
     IN  IF proc[p].doc.mfaEnabled
         THEN /\ users' = users
              /\ last' = Response("verifyMFA", u, "mfa_enabled", NoToken, "unchanged")
         ELSE IF users[u].exists
         THEN /\ users' = [users EXCEPT ![u].mfaEnabled = TRUE]
              /\ last' = Response("verifyMFA", u, "mfa_enabled", NoToken, None)
         ELSE /\ users' = users
              /\ last' = Response("verifyMFA", u, "error", NoToken, "not_found")
  /\ proc' = [proc EXCEPT ![p] = IdleProc]
  /\ UNCHANGED <<now, issuedRefresh, issuedAccess, fifthAt, started>>
  /\ UNCHANGED <<ledgerVars, log, stats, clientVars>>

\* POST /mfa/disable up to the handler's first await: authMiddleware.
DisableMFAGuard(p, bearer, pw, code) ==
  /\ FreeSlot(p)
  /\ LET outcome == GuardOutcome(bearer, users, now)
     IN  IF outcome # "authorized"
         THEN /\ proc' = proc
              /\ last' = Response("disableMFA", None, outcome, NoToken, None)
         ELSE /\ proc' = [proc EXCEPT ![p] =
                            [IdleProc EXCEPT !.pc = "disable_find", !.op = "disableMFA",
                                             !.userId = bearer.uid, !.arg = <<pw, code>>]]
              /\ last' = last
  /\ UNCHANGED <<now, users, issuedRefresh, issuedAccess, fifthAt>>
  /\ UNCHANGED <<ledgerVars, log, stats, clientVars>>

\* disableMFA's decision on the document it found: the code is looked at only
\* when the document has MFA enabled; speakeasy throws on a null secret.
DisableMFAOutcome(user, pw, code) ==
  IF ~user.exists THEN "user_not_found"
  ELSE IF ~comparePassword(pw, user.password) THEN "invalid_password"
  ELSE IF user.mfaEnabled /\ user.mfaSecret = None THEN "error"
  ELSE IF user.mfaEnabled /\ ~TotpVerifies(user.mfaSecret, code) THEN "invalid_mfa"
  ELSE "proceed"

\* disableMFA: User.findById, comparePassword and speakeasy.totp.verify.
DisableMFAFind(p) ==
  /\ proc[p].pc = "disable_find"
  /\ LET u == proc[p].userId
         outcome == DisableMFAOutcome(users[u], proc[p].arg[1], proc[p].arg[2])
     IN  IF outcome # "proceed"
         THEN /\ proc' = [proc EXCEPT ![p] = IdleProc]
              /\ last' = Response("disableMFA", u, outcome, NoToken, None)
         ELSE /\ proc' = [proc EXCEPT ![p].pc = "disable_save", ![p].stale = FALSE,
                                      ![p].doc = MfaCopy(users[u])]
              /\ last' = last
  /\ UNCHANGED <<now, users, issuedRefresh, issuedAccess, fifthAt, started>>
  /\ UNCHANGED <<ledgerVars, log, stats, clientVars>>

\* user.mfaEnabled = false; user.mfaSecret = null; user.mfaBackupCodes = [];
\* await user.save(): save() writes the paths whose value differs from the one
\* read; the $set of the array, when the list read was not empty, is guarded by
\* the document version and increments it.
DisableMFASave(p) ==
  /\ proc[p].pc = "disable_save"
  /\ LET u == proc[p].userId
         doc == proc[p].doc
         flagModified == doc.mfaEnabled
         secretModified == doc.mfaSecret # None
         codesModified == doc.mfaBackupCodes # <<>>
         written == [users[u] EXCEPT
                       !.mfaEnabled = IF flagModified THEN FALSE ELSE @,
                       !.mfaSecret = IF secretModified THEN None ELSE @,
                       !.mfaBackupCodes = IF codesModified THEN <<>> ELSE @]
     IN  IF ~(flagModified \/ secretModified \/ codesModified)
         THEN /\ users' = users
              /\ proc' = [proc EXCEPT ![p] = IdleProc]
              /\ last' = Response("disableMFA", u, "mfa_disabled", NoToken, "unchanged")
         ELSE IF ~users[u].exists \/ (codesModified /\ proc[p].stale)
         THEN /\ users' = users
              /\ proc' = [proc EXCEPT ![p] = IdleProc]
              /\ last' = Response("disableMFA", u, "error", NoToken,
                                  IF users[u].exists THEN "version" ELSE "not_found")
         ELSE /\ users' = [users EXCEPT ![u] = written]
              /\ proc' = IF codesModified THEN AfterVersionBump(p, u, IdleProc)
                         ELSE [proc EXCEPT ![p] = IdleProc]
              /\ last' = Response("disableMFA", u, "mfa_disabled", NoToken, None)
  /\ UNCHANGED <<now, issuedRefresh, issuedAccess, fifthAt, started>>
  /\ UNCHANGED <<ledgerVars, log, stats, clientVars>>

(***************************************************************************)
(* deleteAccount                                                           *)
(***************************************************************************)

ConfirmationPhrase == "DELETE MY ACCOUNT"

\* What a client can send as confirmationText: the phrase, the phrase in
\* another case, and the phrase as the one element of an array.
Confirmations ==
  { [array |-> FALSE, text |-> "DELETE MY ACCOUNT"],
    [array |-> FALSE, text |-> "delete my account"],
    [array |-> TRUE, text |-> "DELETE MY ACCOUNT"] }

\* deleteAccountValidation: body('confirmationText').equals('DELETE MY ACCOUNT'),
\* applied to the string form of the value (of each element of an array).
deleteAccountValidation(confirmation) == confirmation.text = ConfirmationPhrase

\* confirmationText !== 'DELETE MY ACCOUNT' is false: a string, the same text.
ConfirmationMatches(confirmation) ==
  ~confirmation.array /\ confirmation.text = ConfirmationPhrase

\* DELETE /account: authMiddleware, deleteAccountValidation as read by the
\* handler's validationResult, and the handler's own comparison of the text.
DeleteAccountGuard(p, bearer, pw, confirmation) ==
  /\ FreeSlot(p)
  /\ LET outcome == GuardOutcome(bearer, users, now)
     IN  IF outcome # "authorized"
         THEN /\ proc' = proc
              /\ last' = Response("deleteAccount", None, outcome, NoToken, None)
         ELSE IF ~deleteAccountValidation(confirmation)
              THEN /\ proc' = proc
                   /\ last' = Response("deleteAccount", bearer.uid, "validation", NoToken, None)
         ELSE IF ~ConfirmationMatches(confirmation)
              THEN /\ proc' = proc
                   /\ last' = Response("deleteAccount", bearer.uid, "invalid_confirmation",
                                       NoToken, None)
              ELSE /\ proc' = [proc EXCEPT ![p] =
                                 [IdleProc EXCEPT !.pc = "del_find", !.op = "deleteAccount",
                                                  !.userId = bearer.uid,
                                                  !.arg = <<pw, confirmation>>]]
                   /\ last' = last
  /\ UNCHANGED <<now, users, issuedRefresh, issuedAccess, fifthAt>>
  /\ UNCHANGED <<ledgerVars, log, stats, clientVars>>

\* A deleteAccount that does not look at the password.
DeleteAccountOutcomeAnyPassword(user, pw) ==
  IF ~user.exists THEN "user_not_found" ELSE "proceed"

\* The decision of deleteAccount on the document it found.
DeleteAccountOutcome(user, pw) ==
  IF ~user.exists THEN "user_not_found"
  ELSE IF ~comparePassword(pw, user.password) THEN "invalid_password"
  ELSE "proceed"

\* User.findById(userId) and comparePassword(password).
DeleteAccountFind(p) ==
  /\ proc[p].pc = "del_find"
  /\ LET u == proc[p].userId
         outcome == DeleteAccountOutcome(users[u], proc[p].arg[1])
     IN  IF outcome # "proceed"
         THEN /\ proc' = [proc EXCEPT ![p] = IdleProc]
              /\ last' = Response("deleteAccount", u, outcome, NoToken, None)
         ELSE /\ proc' = [proc EXCEPT ![p].pc = "del_entries"]
              /\ last' = last
  /\ UNCHANGED <<now, users, issuedRefresh, issuedAccess, fifthAt, started>>
  /\ UNCHANGED <<ledgerVars, log, stats, clientVars>>

\* await JournalEntry.deleteMany({userId})
DeleteAccountEntries(p) ==
  /\ proc[p].pc = "del_entries"
  /\ entries' = {e \in entries : e.userId # proc[p].userId}
  /\ proc' = [proc EXCEPT ![p].pc = "del_user"]
  /\ UNCHANGED <<clock, limiterHits, limiterStart, ereq>>
  /\ UNCHANGED <<now, users, last, issuedRefresh, issuedAccess, fifthAt, started, log,
               stats, clientVars>>

\* await User.findByIdAndDelete(userId), then the success response.
DeleteAccountUser(p) ==
  /\ proc[p].pc = "del_user"
  /\ LET u == proc[p].userId
     IN  /\ users' = [users EXCEPT ![u] = NoUser]
         /\ last' = Response("deleteAccount", u, "deleted", NoToken, None)
  /\ proc' = [proc EXCEPT ![p] = IdleProc]
  /\ UNCHANGED <<now, issuedRefresh, issuedAccess, fifthAt, started>>
  /\ UNCHANGED <<ledgerVars, log, stats, clientVars>>

(***************************************************************************)
(* createEntry behind the session guard                                    *)
(***************************************************************************)

\* POST /entries: router.use(authMiddleware) lets the request through to the
\* limiter, the validators and the controller with req.userId set.
EntryArrives(r, bearer, ip, content, duration) ==
  /\ GuardOutcome(bearer, users, now) = "authorized"
  /\ CreateEntryBegin(r, bearer.uid, ip, content, duration)

\* A createEntry request whose body passes the validators.
ValidEntryArrives(r, bearer, ip) ==
  \E c \in Contents, d \in Durations :
    /\ createEntryValidation(c, d)
    /\ sanitizeInput(c) = c
    /\ EntryArrives(r, bearer, ip, c, d)

\* POST /entries refused by authMiddleware: the response and nothing else.
EntryDenied(r, bearer) ==
  /\ ereq[r].pc = "new"
  /\ \A q \in EntryReqs : q < r => ereq[q].pc # "new"
  /\ GuardOutcome(bearer, users, now) # "authorized"
  /\ ereq' = [ereq EXCEPT ![r].pc = "done", ![r].resp = GuardOutcome(bearer, users, now)]
  /\ UNCHANGED <<clock, entries, limiterHits, limiterStart>>
  /\ UNCHANGED <<authVars, clientVars>>

\* The :entryId of GET /entries/:entryId: the string of an ObjectId (the _id of a
\* stored entry, or of none), or a string that is not the string of an ObjectId.
EntryIdParams ==
  {[isObjectId |-> TRUE, id |-> i] : i \in 0 .. MaxEntryReqs}
    \cup {[isObjectId |-> FALSE, id |-> 0]}

\* The documents that match {_id: entryId, userId}.
FindOwnEntry(entryId, userId) ==
  {e \in entries : entryId.isObjectId /\ e.id = entryId.id /\ e.userId = userId}

\* getEntry's try block: JournalEntry.findOne casts entryId to the _id's type
\* and throws a CastError for a string that is not an ObjectId's; the handler's
\* catch answers 500.  No document is a 404, a document is returned.
GetEntryOutcome(entryId, userId) ==
  IF ~entryId.isObjectId THEN "error"
  ELSE IF FindOwnEntry(entryId, userId) = {} THEN "not_found"
  ELSE "entry"

\* GET /entries/:entryId up to the handler's await: authMiddleware.
GetEntryGuard(p, bearer, entryId) ==
  /\ FreeSlot(p)
  /\ LET outcome == GuardOutcome(bearer, users, now)
     IN  IF outcome # "authorized"
         THEN /\ proc' = proc
              /\ last' = Response("getEntry", None, outcome, bearer, None)
         ELSE /\ proc' = [proc EXCEPT ![p] =
                            [IdleProc EXCEPT !.pc = "get_find", !.op = "getEntry",
                                             !.userId = bearer.uid, !.token = bearer,
                                             !.arg = entryId]]
              /\ last' = last
  /\ UNCHANGED <<now, users, issuedRefresh, issuedAccess, fifthAt>>
  /\ UNCHANGED <<ledgerVars, log, stats, clientVars>>

\* getEntry's findOne and its response; the note of a 200 is the owner of the
\* document that was returned.
GetEntryFind(p) ==
  /\ proc[p].pc = "get_find"
  /\ LET u == proc[p].userId
         outcome == GetEntryOutcome(proc[p].arg, u)
         found == FindOwnEntry(proc[p].arg, u)
     IN  last' = Response("getEntry", u, outcome, NoToken,
                          IF outcome = "entry" THEN (CHOOSE e \in found : TRUE).userId
                          ELSE None)
  /\ proc' = [proc EXCEPT ![p] = IdleProc]
  /\ UNCHANGED <<now, users, issuedRefresh, issuedAccess, fifthAt, started>>
  /\ UNCHANGED <<ledgerVars, log, stats, clientVars>>

(***************************************************************************)
(* scheduling                                                              *)
(***************************************************************************)

\* The clock advances by one unit.  Clients drop the tokens whose exp has
\* passed: jwt.verify refuses them as it refuses any other invalid token.
Tick ==
  /\ now < MaxTime
  /\ now' = now + 1
  /\ issuedRefresh' = {tok \in issuedRefresh : verifyRefreshToken(tok, now + 1)}
  /\ issuedAccess' = {tok \in issuedAccess : verifyAccessToken(tok, now + 1)}
  /\ UNCHANGED <<users, proc, last, fifthAt, started>>
  /\ UNCHANGED <<ledgerVars, log, stats, clientVars>>

\* What a client can put in a request.
PresentableRefresh == issuedRefresh \cup {ForgedToken, NoToken}
PresentableAccess == issuedAccess \cup {ForgedToken, NoToken}

\* No request is in flight.
Quiet == \A q \in Procs : ~InFlight(q)

\* A login request arrives: any identity, password and mfaCode.
LoginArrives(p) ==
  /\ log' = log
  /\ started' = started
  /\ \E u \in Identities, pw \in Passwords, mfa \in MfaInputs : LoginBegin(p, u, pw, mfa)

\* A login request arrives while no other request is being served.
LoginArrivesAlone(p) == Quiet /\ LoginArrives(p)

\* The requests of a session scenario, at most MaxRequests of them: register,
\* login with credentials that are not refused, refresh and logout.
RegisterArrives(p) ==
  /\ started < MaxRequests
  /\ started' = started + 1
  /\ \E u \in Identities, pw \in Passwords : RegisterBegin(p, u, pw)

SessionLoginArrives(p) ==
  /\ log' = log
  /\ started < MaxRequests
  /\ started' = started + 1
  /\ \E u \in Identities, pw \in Passwords, mfa \in MfaInputs :
       /\ LoginOutcome(users[u], pw, mfa, now) \notin {"fail_password", "fail_mfa"}
       /\ LoginBegin(p, u, pw, mfa)

RefreshArrives(p) ==
  /\ started < MaxRequests
  /\ started' = started + 1
  /\ \E tok \in PresentableRefresh : RefreshToken(p, tok)

LogoutArrives(p) ==
  /\ started < MaxRequests
  /\ started' = started + 1
  /\ \E bearer \in PresentableAccess, tok \in PresentableRefresh : LogoutGuard(p, bearer, tok)

ChangePasswordArrives(p) ==
  /\ started < MaxRequests
  /\ started' = started + 1
  /\ \E bearer \in PresentableAccess, cur \in Passwords, new \in NewPasswords :
       ChangePasswordGuard(p, bearer, cur, new)

DeleteAccountArrives(p) ==
  /\ started < MaxRequests
  /\ started' = started + 1
  /\ \E bearer \in PresentableAccess, pw \in Passwords, c \in Confirmations :
       DeleteAccountGuard(p, bearer, pw, c)

\* Logins overlapping freely.
NextLogin ==
  \/ Tick
  \/ \E p \in Procs :
       \/ LoginArrives(p)
       \/ LoginIncAttempts(p)
       \/ LoginResetAttempts(p)
       \/ LoginSaveLastLogin(p)
       \/ LoginCleanupTokens(p)
       \/ LoginStoreToken(p)

\* Logins one after another.
NextLoginSeq ==
  \/ Tick
  \/ \E p \in Procs :
       \/ LoginArrivesAlone(p)
       \/ LoginIncAttempts(p)
       \/ LoginResetAttempts(p)
       \/ LoginSaveLastLogin(p)
       \/ LoginCleanupTokens(p)
       \/ LoginStoreToken(p)

\* Session scenarios, the requests overlapping freely.
NextSession ==
  \/ Tick
  \/ \E p \in Procs :
       \/ RegisterArrives(p)
       \/ RegisterInsert(p)
       \/ RegisterStoreToken(p)
       \/ SessionLoginArrives(p)
       \/ LoginResetAttempts(p)
       \/ LoginSaveLastLogin(p)
       \/ LoginCleanupTokens(p)
       \/ LoginStoreToken(p)
       \/ RefreshArrives(p)
       \/ LogoutArrives(p)
       \/ LogoutFind(p)
       \/ LogoutSave(p)

\* Password changes among the logins, refreshes and logouts of the registered
\* identity.
NextPassword ==
  \/ Tick
  \/ \E p \in Procs :
       \/ SessionLoginArrives(p)
       \/ LoginResetAttempts(p)
       \/ LoginSaveLastLogin(p)
       \/ LoginCleanupTokens(p)
       \/ LoginStoreToken(p)
       \/ RefreshArrives(p)
       \/ LogoutArrives(p)
       \/ LogoutFind(p)
       \/ LogoutSave(p)
       \/ ChangePasswordArrives(p)
       \/ ChangePasswordFind(p)
       \/ ChangePasswordSave(p)

\* The requests received in a scenario that has account and createEntry requests.
Received == started + Cardinality({r \in EntryReqs : ereq[r].pc # "new"})

AccountRegisterArrives(p) == Received < MaxRequests /\ RegisterArrives(p)

AccountDeleteArrives(p) == Received < MaxRequests /\ DeleteAccountArrives(p)

AccountEntryArrives(r) ==
  /\ Received < MaxRequests
  /\ \E bearer \in PresentableAccess, ip \in ClientIPs : ValidEntryArrives(r, bearer, ip)

AccountEntryDenied(r) ==
  /\ Received < MaxRequests
  /\ \E bearer \in PresentableAccess : EntryDenied(r, bearer)

\* Account deletion among registrations and createEntry requests.
NextDelete ==
  \/ Tick
  \/ \E p \in Procs :
       \/ AccountRegisterArrives(p)
       \/ RegisterInsert(p)
       \/ RegisterStoreToken(p)
       \/ AccountDeleteArrives(p)
       \/ DeleteAccountFind(p)
       \/ DeleteAccountEntries(p)
       \/ DeleteAccountUser(p)
  \/ \E r \in EntryReqs :
       \/ AccountEntryArrives(r)
       \/ AccountEntryDenied(r)
       \/ CreateEntrySave(r)

\* A getEntry request arrives.
GetEntryArrives(p) ==
  /\ started' = started + 1
  /\ \E bearer \in PresentableAccess, entryId \in EntryIdParams :
       GetEntryGuard(p, bearer, entryId)

ReadRegisterArrives(p) == Received < MaxRequests /\ RegisterArrives(p)

ReadLoginArrives(p) == Received < MaxRequests /\ SessionLoginArrives(p)

ReadEntryArrives(r) ==
  /\ Received < MaxRequests
  /\ \E bearer \in PresentableAccess, ip \in ClientIPs : ValidEntryArrives(r, bearer, ip)

ReadGetEntryArrives(p) == Received < MaxRequests /\ GetEntryArrives(p)

\* Reading entries among registrations, logins and createEntry requests.
NextRead ==
  \/ Tick
  \/ \E p \in Procs :
       \/ ReadRegisterArrives(p)
       \/ RegisterInsert(p)
       \/ RegisterStoreToken(p)
       \/ ReadLoginArrives(p)
       \/ LoginResetAttempts(p)
       \/ LoginSaveLastLogin(p)
       \/ LoginCleanupTokens(p)
       \/ LoginStoreToken(p)
       \/ ReadGetEntryArrives(p)
       \/ GetEntryFind(p)
  \/ \E r \in EntryReqs :
       \/ ReadEntryArrives(r)
       \/ CreateEntrySave(r)

\* A login that will count as a failed attempt arrives while no other request
\* is being served.
GuardLoginFails(p) ==
  /\ log' = log
  /\ Quiet
  /\ started' = started
  /\ \E u \in Identities, pw \in Passwords, mfa \in MfaInputs :
       /\ LoginOutcome(users[u], pw, mfa, now) \in {"fail_password", "fail_mfa"}
       /\ LoginBegin(p, u, pw, mfa)

GuardRegisterArrives(p) == Quiet /\ started < MaxGuardRequests /\ RegisterArrives(p)

GuardDeleteArrives(p) == Quiet /\ started < MaxGuardRequests /\ DeleteAccountArrives(p)

GuardGetEntryArrives(p) == Quiet /\ started < MaxGuardRequests /\ GetEntryArrives(p)

\* The session guard among failed logins, registrations and deletions, one
\* request being served at a time.
NextGuard ==
  \/ Tick
  \/ \E p \in Procs :
       \/ GuardLoginFails(p)
       \/ LoginIncAttempts(p)
       \/ GuardRegisterArrives(p)
       \/ RegisterInsert(p)
       \/ RegisterStoreToken(p)
       \/ GuardDeleteArrives(p)
       \/ DeleteAccountFind(p)
       \/ DeleteAccountEntries(p)
       \/ DeleteAccountUser(p)
       \/ GuardGetEntryArrives(p)
       \/ GetEntryFind(p)

\* The MFA requests of a session scenario.
SetupMFAArrives(p) ==
  /\ started < MaxRequests
  /\ started' = started + 1
  /\ \E bearer \in PresentableAccess : SetupMFAGuard(p, bearer)

VerifyMFAArrives(p) ==
  /\ started < MaxRequests
  /\ started' = started + 1
  /\ \E bearer \in PresentableAccess, code \in CodeInputs : VerifyMFAGuard(p, bearer, code)

DisableMFAArrives(p) ==
  /\ started < MaxRequests
  /\ started' = started + 1
  /\ \E bearer \in PresentableAccess, pw \in Passwords, code \in CodeInputs :
       DisableMFAGuard(p, bearer, pw, code)

MfaRegisterArrives(p) == started < MaxMfaRequests /\ RegisterArrives(p)

MfaLoginArrives(p) == started < MaxMfaRequests /\ SessionLoginArrives(p)

MfaSetupArrives(p) == started < MaxMfaRequests /\ SetupMFAArrives(p)

MfaVerifyArrives(p) == started < MaxMfaRequests /\ VerifyMFAArrives(p)

MfaDisableArrives(p) == started < MaxMfaRequests /\ DisableMFAArrives(p)

\* MFA setup, verification and disabling among registrations and logins.
NextMfa ==
  \/ Tick
  \/ \E p \in Procs :
       \/ MfaRegisterArrives(p)
       \/ RegisterInsert(p)
       \/ RegisterStoreToken(p)
       \/ MfaLoginArrives(p)
       \/ LoginResetAttempts(p)
       \/ LoginSaveLastLogin(p)
       \/ LoginCleanupTokens(p)
       \/ LoginStoreToken(p)
       \/ MfaSetupArrives(p)
       \/ SetupMFAFind(p)
       \/ SetupMFASave(p)
       \/ MfaVerifyArrives(p)
       \/ VerifyMFAFind(p)
       \/ VerifyMFASave(p)
       \/ MfaDisableArrives(p)
       \/ DisableMFAFind(p)
       \/ DisableMFASave(p)

\* A login request of a scenario with at most MaxRequests requests: any
\* identity, password and mfaCode.
BackupLoginArrives(p) ==
  /\ log' = log
  /\ started < MaxRequests
  /\ started' = started + 1
  /\ \E u \in Identities, pw \in Passwords, mfa \in MfaInputs : LoginBegin(p, u, pw, mfa)

\* Concurrent logins, the backup-code branch of the handler included.
NextBackup ==
  \/ Tick
  \/ \E p \in Procs :
       \/ BackupLoginArrives(p)
       \/ LoginIncAttempts(p)
       \/ LoginAfterFactors(p)
       \/ LoginSaveLastLogin(p)
       \/ LoginCleanupTokens(p)
       \/ LoginStoreToken(p)

\* A register request arrives with its email as typed: the validator's
\* normalizeEmail, sanitizeInput(email).toLowerCase() and the schema's lowercase
\* option all lowercase it (sanitizeInput removes nothing from a string that
\* passed isEmail).
RegisterEmailArrives(p) ==
  /\ started < MaxRequests
  /\ started' = started + 1
  /\ \E email \in EmailStrings, pw \in ValidPasswords :
       RegisterBegin(p, toLowerCase(email), pw)

\* Registrations among logins and password changes.
NextRegister ==
  \/ Tick
  \/ \E p \in Procs :
       \/ RegisterEmailArrives(p)
       \/ RegisterInsert(p)
       \/ RegisterStoreToken(p)
       \/ SessionLoginArrives(p)
       \/ LoginResetAttempts(p)
       \/ LoginSaveLastLogin(p)
       \/ LoginCleanupTokens(p)
       \/ LoginStoreToken(p)
       \/ ChangePasswordArrives(p)
       \/ ChangePasswordFind(p)
       \/ ChangePasswordSave(p)

\* A login request arrives and its console lines are kept.
LoggedLoginArrives(p) ==
  /\ Quiet
  /\ started < MaxRequests
  /\ started' = started + 1
  /\ \E u \in Identities, pw \in Passwords, mfa \in MfaInputs :
       /\ LoginBegin(p, u, pw, mfa)
       /\ log' = log \cup LoginLogLines(users[u], u, pw, mfa, now)

LoggedRegisterArrives(p) == Quiet /\ RegisterArrives(p)

LoggedChangePasswordArrives(p) == Quiet /\ ChangePasswordArrives(p)

LoggedDisableMFAArrives(p) == Quiet /\ DisableMFAArrives(p)

LoggedDeleteArrives(p) == Quiet /\ DeleteAccountArrives(p)

\* The requests that carry a password, one after another, with the console
\* lines of login kept. The other handlers write to the console only in their
\* catch blocks, the label and the error object.
NextLog ==
  \/ Tick
  \/ \E p \in Procs :
       \/ LoggedLoginArrives(p)
       \/ LoginIncAttempts(p)
       \/ LoginAfterFactors(p)
       \/ LoginSaveLastLogin(p)
       \/ LoginCleanupTokens(p)
       \/ LoginStoreToken(p)
       \/ LoggedRegisterArrives(p)
       \/ RegisterInsert(p)
       \/ RegisterStoreToken(p)
       \/ LoggedChangePasswordArrives(p)
       \/ ChangePasswordFind(p)
       \/ ChangePasswordSave(p)
       \/ LoggedDisableMFAArrives(p)
       \/ DisableMFAFind(p)
       \/ DisableMFASave(p)
       \/ LoggedDeleteArrives(p)
       \/ DeleteAccountFind(p)
       \/ DeleteAccountEntries(p)
       \/ DeleteAccountUser(p)

\* The two statistics requests on the entries of a user.
NextStats ==
  \/ GetStatsBegin
  \/ GetStatsStep
  \/ GetAccountStats

\* A token has been issued to the identity: its email has been registered.
EverIssued(u) == \E tok \in issuedRefresh \cup issuedAccess : tok.uid = u

\* A registration of an email that has not been registered before. (A new
\* registration of a deleted account's email creates a user with a new _id,
\* a different identity, for which the model has no key; so does the insert
\* of a registration that overlapped the one of the deleted account.)
RevokeRegisterArrives(p) ==
  /\ started < MaxRequests
  /\ started' = started + 1
  /\ \E u \in Identities, pw \in Passwords :
       /\ ~EverIssued(u)
       /\ \A q \in Procs : proc[q].op = "register" => proc[q].userId # u
       /\ RegisterBegin(p, u, pw)

RevokeGetEntryArrives(p) == started < MaxRequests /\ GetEntryArrives(p)

\* Account deletion among registrations, guarded reads and refreshes.
NextRevoke ==
  \/ Tick
  \/ \E p \in Procs :
       \/ RevokeRegisterArrives(p)
       \/ RegisterInsert(p)
       \/ RegisterStoreToken(p)
       \/ DeleteAccountArrives(p)
       \/ DeleteAccountFind(p)
       \/ DeleteAccountEntries(p)
       \/ DeleteAccountUser(p)
       \/ RevokeGetEntryArrives(p)
       \/ GetEntryFind(p)
       \/ RefreshArrives(p)

\* A createEntry request of one client address with any 'timezone' header and a
\* body that passes.
ZoneEntryArrives(r) ==
  \E u \in Identities, c \in Contents, d \in Durations, header \in TimezoneHeaders :
    /\ createEntryValidation(c, d)
    /\ sanitizeInput(c) = c
    /\ CreateEntryWithHeader(r, u, "ip1", c, d, header)

\* Entries written by clients of several zones.
NextZone ==
  \/ \E r \in EntryReqs : ZoneEntryArrives(r)
  \/ \E r \in EntryReqs : CreateEntrySave(r)
  \/ \E ip \in ClientIPs : LimiterWindowExpires(ip)
  \/ ClockTick

\* A createEntry request of one client address with a body that passes.
CanWriteEntryArrives(r) ==
  \E u \in Identities, c \in Contents, d \in Durations :
    /\ createEntryValidation(c, d)
    /\ sanitizeInput(c) = c
    /\ CreateEntryBegin(r, u, "ip1", c, d)

\* canWriteToday among createEntry requests and across midnight.
NextCanWrite ==
  \/ \E r \in EntryReqs : CanWriteEntryArrives(r)
  \/ \E r \in EntryReqs : CreateEntrySave(r)
  \/ \E r \in EntryReqs, u \in Identities : CanWriteTodayBegin(r, u)
  \/ \E r \in EntryReqs : CanWriteTodayFind(r)
  \/ \E ip \in ClientIPs : LimiterWindowExpires(ip)
  \/ ClockTick

\* The checks of a submitted password.
NextPolicy == RegisterCheckPassword

\* The writing timer under its controls and its interval.
NextTimer ==
  \/ TimerStart
  \/ TimerPause
  \/ TimerResume
  \/ TimerReset
  \/ TimerStop
  \/ TimerTick

(***************************************************************************)
(* Specifications                                                          *)
(***************************************************************************)

\* The ledger under concurrent createEntry requests.
SpecLedger == Init /\ [][NextLedger]_vars

\* The lockout under concurrent logins.
SpecLogin == Init /\ [][NextLogin]_vars

\* The lockout when logins do not overlap.
SpecLoginSeq == Init /\ [][NextLoginSeq]_vars

\* The session lifecycle under concurrent requests.
SpecSession == Init /\ [][NextSession]_vars

\* Password changes under concurrent session requests.
SpecPassword == Init /\ [][NextPassword]_vars

\* Account deletion under concurrent createEntry requests.
SpecDelete == Init /\ [][NextDelete]_vars

\* Reading entries under concurrent requests of two identities.
SpecRead == Init /\ [][NextRead]_vars

\* The session guard while identities are locked and deleted.
SpecGuard == Init /\ [][NextGuard]_vars

\* The MFA lifecycle under concurrent requests.
SpecMfa == Init /\ [][NextMfa]_vars

\* Concurrent logins with TOTP codes and backup codes.
SpecBackup == Init /\ [][NextBackup]_vars

\* Registration and the stored password under concurrent requests.
SpecRegister == Init /\ [][NextRegister]_vars

\* The console log of the requests that carry a password.
SpecLog == Init /\ [][NextLog]_vars

\* The statistics computed from the entry days of a user.
SpecStats == InitStats /\ [][NextStats]_vars

\* The day-keys of entries written from several zones.
SpecZone == Init /\ [][NextZone]_vars

\* The answers of canWriteToday.
SpecCanWrite == Init /\ [][NextCanWrite]_vars

\* The password checks of register.
SpecPolicy == InitPolicy /\ [][NextPolicy]_vars

\* The writing timer.
SpecTimer == Init /\ [][NextTimer]_vars

\* The tokens of a deleted account.
SpecRevoke == Init /\ [][NextRevoke]_vars

(***************************************************************************)
(* Claims about the entry ledger                                           *)
(***************************************************************************)

\* The requests that ran their insert for identity u with day-key d.
Inserters(u, d) ==
  {q \in EntryReqs : ereq[q].pc = "done" /\ ereq[q].userId = u /\ ereq[q].dateString = d}

\* C1: in every reachable state, whatever the interleaving of createEntry
\* requests, no two journal entries share an (identity, UTC day-key) pair.
C1_OneEntryPerDay ==
  \A e1 \in entries, e2 \in entries :
    (e1.userId = e2.userId /\ e1.dateString = e2.dateString) => e1 = e2

\* Two requests of one identity both passed the pre-check and both ran their
\* insert for the same day: one was stored, the other met the index.
C1_Witness ==
  \E r1 \in EntryReqs, r2 \in EntryReqs :
    /\ r1 # r2
    /\ ereq[r1].resp = "created"
    /\ ereq[r2].pc = "done" /\ ereq[r2].resp # "created"
    /\ ereq[r2].userId = ereq[r1].userId
    /\ ereq[r2].dateString # Absent
    /\ ereq[r2].dateString = ereq[r1].dateString

\* C2: of the valid createEntry requests of one identity that all passed the
\* existence pre-check and ran their insert for the same day, exactly one
\* created the entry, every other one was answered with the duplicate-for-day
\* conflict (never the generic server error), and the stored entry is still the
\* creator's.
C2_ConcurrentDuplicate ==
  \A r \in EntryReqs :
    (ereq[r].pc = "done" /\ ereq[r].dateString # Absent) =>
      LET G == Inserters(ereq[r].userId, ereq[r].dateString)
          creators == {q \in G : ereq[q].resp = "created"}
      IN  /\ ereq[r].resp \in {"created", "duplicate"}
          /\ Cardinality(creators) = 1
          /\ \A q \in creators :
                \A e \in FindEntry(ereq[r].userId, ereq[r].dateString) :
                  e.id = q /\ e.content = ereq[q].content

\* Three overlapping requests of one identity for one day have all finished:
\* one created, two were refused as duplicates.
C2_Witness ==
  \E r1 \in EntryReqs, r2 \in EntryReqs, r3 \in EntryReqs :
    /\ r2 # r3
    /\ ereq[r1].resp = "created"
    /\ \A q \in {r2, r3} :
         /\ ereq[q].resp = "duplicate"
         /\ ereq[q].userId = ereq[r1].userId
         /\ ereq[q].dateString # Absent
         /\ ereq[q].dateString = ereq[r1].dateString

\* C3: a createEntry request with valid input succeeds exactly when the
\* identity had no entry for the current UTC day-key, and when it fails it
\* fails with the duplicate-for-day conflict and nothing else; an earlier
\* request rejected by validation changes nothing of this.
C3_CreateIffNoEntryToday ==
  \A r \in EntryReqs :
    (ereq[r].pc = "done" /\ ereq[r].valid) =>
      /\ (ereq[r].resp = "created") <=> ~ereq[r].hadEntry
      /\ ereq[r].resp # "created" => ereq[r].resp = "duplicate"

(***************************************************************************)
(* Claims about the lockout                                                *)
(***************************************************************************)

\* C4: in every reachable state, also when failed logins overlap, a failure
\* counter of 5 or more implies that lock-until is set, to 2 hours after the
\* failure that was the 5th.
C4_LockedAtFive ==
  \A u \in Identities :
    (users[u].exists /\ users[u].loginAttempts >= MaxLoginAttempts)
      => users[u].lockUntil = fifthAt[u] + LockDuration

\* The login request in slot p returns its response in this step.
LoginReturns(p) == proc[p].op = "login" /\ proc'[p].pc = "idle"

\* C5: while an identity is locked no step clears or shortens its lock, no
\* login on it is admitted past the lock check, and no login on it returns
\* tokens; this includes the steps of a login that had read the identity
\* before the lock was set.
C5_LockHolds ==
  [][\A u \in Identities :
       (users[u].exists /\ isLocked(users[u], now)) =>
         /\ users'[u].lockUntil # Absent
         /\ users'[u].lockUntil >= users[u].lockUntil
         /\ \A p \in Procs :
              /\ (~InFlight(p) /\ proc'[p].op = "login") => proc'[p].userId # u
              /\ (LoginReturns(p) /\ proc[p].userId = u) => proc[p].pc # "login_token"
    ]_vars

C7_ExpiredLockRestarts ==
  [][\A u \in Identities :
       /\ (/\ users[u].lockUntil # Absent
           /\ users[u].lockUntil < now
           /\ \E p \in Procs : proc[p].pc = "login_inc" /\ proc[p].userId = u /\ LoginReturns(p))
            => (users'[u].loginAttempts = 1 /\ users'[u].lockUntil = Absent)
       /\ users'[u].loginAttempts <= users[u].loginAttempts + 1
       /\ users'[u].lockUntil # users[u].lockUntil /\ users'[u].lockUntil # Absent
            => users'[u].loginAttempts >= MaxLoginAttempts
    ]_vars

\* A failed login has restarted the counter of an identity whose lock had expired.
C7_Witness ==
  /\ last.op = "login"
  /\ last.resp \in {"invalid_credentials", "invalid_mfa"}
  /\ last.note = "restart"
  /\ users[last.userId].loginAttempts = 1
  /\ users[last.userId].lockUntil = Absent

(***************************************************************************)
(* Claims about the session tokens                                         *)
(***************************************************************************)

\* The request in slot p, a register or a login, returns its token pair in this step.
ReturnsTokens(p) == proc[p].pc \in {"reg_token", "login_token"} /\ proc'[p].pc = "idle"

\* The logout in slot p returns success in this step.
LogoutSucceeds(p) ==
  /\ proc[p].op = "logout"
  /\ proc'[p].pc = "idle"
  /\ last'.op = "logout"
  /\ last'.resp = "logged_out"

\* C8: right after register or login has returned a refresh token, refresh with
\* that token yields an access token; right after the owner's logout with a
\* refresh token has completed, refresh with that token is refused.
C8_RefreshRoundTrip ==
  [][\A p \in Procs :
       /\ ReturnsTokens(p) =>
            RefreshOutcome(generateRefreshToken(proc[p].userId, now), users', now') = "access"
       /\ (LogoutSucceeds(p) /\ proc[p].token.kind = "refresh" /\ proc[p].token.uid = proc[p].userId)
            => RefreshOutcome(proc[p].token, users', now') # "access"
    ]_vars

\* The identity's token list holds a record of this token that is active and unexpired.
OwnActiveRecord(tok, db, t) ==
  \E i \in 1..Len(db[tok.uid].refreshTokens) :
    LET rec == db[tok.uid].refreshTokens[i]
    IN  rec.token = tok /\ rec.isActive /\ rec.expiresAt > t

\* C9: refresh issues an access token exactly when the presented token
\* verifies, the identity it decodes to exists and that identity's own list
\* holds an active, unexpired record of the same string; the access token is
\* for that identity, and every other request is refused with an auth error
\* and issues nothing.
C9_RefreshNeedsOwnActiveRecord ==
  [][(last' # last /\ last'.op = "refresh") =>
       LET tok == last'.token
           granted == last'.resp = "access"
       IN  /\ granted <=> (/\ verifyRefreshToken(tok, now)
                           /\ users[tok.uid].exists
                           /\ OwnActiveRecord(tok, users, now))
           /\ granted =>
                /\ last'.userId = tok.uid
                /\ issuedAccess' \ issuedAccess \subseteq {generateAccessToken(tok.uid, now)}
                /\ generateAccessToken(tok.uid, now) \in issuedAccess'
           /\ ~granted =>
                /\ last'.resp \in {"token_required", "invalid_token", "user_not_found",
                                   "invalid_or_expired"}
                /\ issuedAccess' = issuedAccess
    ]_vars

\* A refresh was granted to one identity while another identity holds an
\* active token of its own.
C9_Witness ==
  /\ last.op = "refresh"
  /\ last.resp = "access"
  /\ generateAccessToken(last.token.uid, now) \in issuedAccess
  /\ \E v \in Identities \ {last.token.uid} :
       \E i \in 1..Len(users[v].refreshTokens) : users[v].refreshTokens[i].isActive

\* C10: a logout whose token is absent from the caller's list (another
\* identity's token included) or whose record it finds inactive returns the
\* success of a first logout and changes no token list; a logout that
\* deactivated a record leaves the record a second logout will find inactive.
C10_LogoutIdempotent ==
  [][\A p \in Procs :
       (proc[p].op = "logout" /\ proc'[p].pc # proc[p].pc) =>
         LET u == proc[p].userId
             tok == proc[p].token
         IN  /\ (proc[p].pc = "logout_find" /\ FindTokenIndex(users[u].refreshTokens, tok) = 0)
                  => (LogoutSucceeds(p) /\ users' = users)
             /\ proc[p].pc = "logout_find" => users' = users
             /\ (proc[p].pc = "logout_save" /\ ~proc[p].doc.refreshTokens[proc[p].idx].isActive)
                  => (LogoutSucceeds(p) /\ users' = users)
             /\ (proc[p].pc = "logout_save" /\ LogoutSucceeds(p) /\ users' # users)
                  => LET i == FindTokenIndex(users'[u].refreshTokens, tok)
                     IN  i > 0 /\ ~users'[u].refreshTokens[i].isActive
    ]_vars

\* A second logout with the same token found the record inactive and succeeded.
C10_Witness ==
  /\ last.op = "logout"
  /\ last.resp = "logged_out"
  /\ last.note = "inactive"
  /\ last.token.uid = last.userId

\* The changePassword in slot p returns success in this step.
ChangePasswordSucceeds(p) ==
  /\ proc[p].pc = "cp_save"
  /\ proc'[p].pc = "idle"
  /\ last'.op = "changePassword"
  /\ last'.resp = "password_changed"

\* C11: when changePassword returns success, refresh is refused for every
\* refresh token issued to that identity before, whatever logins, logouts and
\* refreshes of the identity overlapped the change.
C11_PasswordChangeRevokesAll ==
  [][\A p \in Procs :
       ChangePasswordSucceeds(p) =>
         \A tok \in issuedRefresh :
           tok.uid = proc[p].userId => RefreshOutcome(tok, users', now') # "access"
    ]_vars

\* The identity's token list holds a record of this string, active or not.
HasRecord(tok, db) ==
  \E i \in 1..Len(db[tok.uid].refreshTokens) : db[tok.uid].refreshTokens[i].token = tok

\* This step appends a record of this string to its identity's list.
AppendsRecord(tok) ==
  \E p \in Procs : ReturnsTokens(p) /\ tok = generateRefreshToken(proc[p].userId, now)

\* C12: in any interleaving of login and logout requests of one identity, a
\* refresh token that has a record and is refused by refresh (its logout has
\* completed) is still refused after every step that issues no token: no step
\* of a login that rewrites the list from the copy it read makes an inactive
\* record active again.
C12_InactiveStaysInactive ==
  [][\A tok \in issuedRefresh :
       (/\ users[tok.uid].exists
        /\ HasRecord(tok, users)
        /\ RefreshOutcome(tok, users, now) # "access"
        /\ ~AppendsRecord(tok))
         => RefreshOutcome(tok, users', now') # "access"
    ]_vars

(***************************************************************************)
(* Claims about the account lifecycle                                      *)
(***************************************************************************)

\* C19: every journal entry in the store is owned by an existing identity,
\* also while and after a deleteAccount overlaps a createEntry of the same
\* identity that had passed the session guard.
C19_EntriesHaveOwner ==
  \A e \in entries : users[e.userId].exists

\* C18: deleteAccount goes on to remove something only from a request whose
\* confirmation text is exactly the phrase and whose password verifies against
\* the stored hash; nothing but the two delete steps of such a request removes
\* an entry or an identity, and a deleteAccount that is refused leaves every
\* identity, token list and entry as it was.
C18_DeleteNeedsPhraseAndPassword ==
  [][/\ \A p \in Procs :
          /\ (proc'[p].pc = "del_entries" /\ proc[p].pc # "del_entries") =>
                /\ proc[p].pc = "del_find"
                /\ ~proc[p].arg[2].array
                /\ proc[p].arg[2].text = "DELETE MY ACCOUNT"
                /\ users[proc[p].userId].password = Hash(proc[p].arg[1])
                /\ users' = users /\ entries' = entries
          /\ (proc'[p].pc = "del_user" /\ proc[p].pc # "del_user") => proc[p].pc = "del_entries"
          /\ (proc'[p].pc = "del_find" /\ proc[p].pc # "del_find") =>
                (users' = users /\ entries' = entries)
     /\ (last' # last /\ last'.op = "deleteAccount" /\ last'.resp # "deleted") =>
          (users' = users /\ entries' = entries)
     /\ \A e \in entries \ entries' :
          \E p \in Procs : proc[p].pc = "del_entries" /\ proc[p].userId = e.userId
     /\ \A u \in Identities :
          (users[u].exists /\ ~users'[u].exists) =>
            \E p \in Procs : proc[p].pc = "del_user" /\ proc[p].userId = u
    ]_vars

\* A deleteAccount with the phrase and a wrong password was refused, and the
\* identity and its entry are still there.
C18_Witness ==
  /\ last.op = "deleteAccount"
  /\ last.resp = "invalid_password"
  /\ users[last.userId].exists
  /\ Len(users[last.userId].refreshTokens) > 0
  /\ \E e \in entries : e.userId = last.userId

(***************************************************************************)
(* Claims about reading entries                                            *)
(***************************************************************************)

\* The getEntry request p answers at this step.
GetEntryAnswers(p) == proc[p].pc = "get_find" /\ proc'[p].pc = "idle"

\* C20: getEntry returns an entry only to its owner: the entry returned has the
\* requested id and the caller as its owner, and for every entryId that is not
\* the id of an entry owned by the caller the response is the 404, the same
\* response whether the id is the id of another identity's entry or of none.
C20_GetEntryOwnerOnly ==
  [][\A p \in Procs :
       GetEntryAnswers(p) =>
         LET u == proc[p].userId
             entryId == proc[p].arg
             own == \E e \in entries :
                      entryId.isObjectId /\ e.id = entryId.id /\ e.userId = u
         IN  /\ last'.op = "getEntry"
             /\ own => last'.resp = "entry" /\ last'.note = u
             /\ ~own => last' = Response("getEntry", u, "not_found", NoToken, None)]_vars

(***************************************************************************)
(* Claims about the session guard and the second factor                    *)
(***************************************************************************)

GuardDenials == {"no_token", "invalid_token", "user_not_found", "locked"}

\* A getEntry request is refused by the guard at this step.
GuardDenies ==
  /\ started' = started + 1
  /\ last'.op = "getEntry" /\ last'.resp \in GuardDenials
  /\ \A p \in Procs : proc'[p].pc = proc[p].pc

\* The getEntry request p passes the guard at this step.
GuardAuthorizes(p) == proc[p].pc = "idle" /\ proc'[p].pc = "get_find"

\* C13: the guard lets a request through iff its bearer token is present,
\* verifies, names an existing identity and that identity is not locked; a
\* request it refuses gets the reason of the first check that fails, in the
\* order no token, invalid token, identity not found, locked, and changes
\* nothing and starts no handler.
C13_GuardAuthorizesIff ==
  [][/\ GuardDenies =>
          LET b == last'.token
              present == b.kind # "absent"
              verifies == present /\ b.kind = "access" /\ now < b.iat + AccessTTL
              found == verifies /\ users[b.uid].exists
              locked == found /\ users[b.uid].lockUntil # Absent
                              /\ users[b.uid].lockUntil > now
          IN  /\ ~present => last'.resp = "no_token"
              /\ present /\ ~verifies => last'.resp = "invalid_token"
              /\ verifies /\ ~found => last'.resp = "user_not_found"
              /\ found => last'.resp = "locked" /\ locked
              /\ users' = users /\ entries' = entries
     /\ \A p \in Procs :
          GuardAuthorizes(p) =>
            LET b == proc'[p].token
            IN  /\ b.kind = "access" /\ now < b.iat + AccessTTL
                /\ users[b.uid].exists
                /\ ~(users[b.uid].lockUntil # Absent /\ users[b.uid].lockUntil > now)
                /\ proc'[p].userId = b.uid]_vars

\* A request with a valid token of an existing, locked identity was refused with
\* the 423.
C13_Witness ==
  /\ last.op = "getEntry" /\ last.resp = "locked"
  /\ verifyAccessToken(last.token, now)
  /\ users[last.token.uid].exists /\ isLocked(users[last.token.uid], now)

\* The login request p, refused for its second factor, counts the failure at
\* this step.
CountsMfaFailure(p) ==
  proc[p].pc = "login_inc" /\ proc[p].failKind = "invalid_mfa" /\ proc'[p].pc = "idle"

\* C14: on an identity with MFA enabled that is not locked, a login with the
\* correct password and no code gets the 'MFA required' marker and changes
\* nothing; with a six-digit code that is not a current code of the secret it
\* goes on to count a failed attempt and gets the 401; no login enters the
\* steps that reset the counter and issue tokens unless its password and its
\* second factor verified, and only those steps reset the counter or issue a
\* token.
C14_SecondFactorGatesLogin ==
  [][/\ \A p \in Procs, u \in Identities, pw \in Passwords, mfa \in MfaInputs :
          (/\ proc[p].pc = "idle"
           /\ LoginBegin(p, u, pw, mfa)
           /\ users[u].exists /\ users[u].mfaEnabled) =>
            LET passwordOk == users[u].password = Hash(pw)
                locked == users[u].lockUntil # Absent /\ users[u].lockUntil > now
                codeOk == mfa = TotpOf(users[u].mfaSecret)
                backupOk == \E i \in 1..Len(users[u].mfaBackupCodes) :
                              /\ users[u].mfaBackupCodes[i].code = toUpperCase(mfa)
                              /\ ~users[u].mfaBackupCodes[i].used
            IN  /\ users' = users
                /\ issuedRefresh' = issuedRefresh /\ issuedAccess' = issuedAccess
                /\ (passwordOk /\ ~locked /\ mfa = "none") =>
                     /\ proc'[p].pc = "idle"
                     /\ last' = Response("login", u, "mfa_required", NoToken, None)
                /\ (passwordOk /\ ~locked /\ mfa \in MfaCodes /\ ~codeOk) =>
                     proc'[p].pc = "login_inc" /\ proc'[p].failKind = "invalid_mfa"
                /\ proc'[p].pc = "login_reset" => passwordOk /\ ~locked /\ codeOk
                /\ proc'[p].pc = "login_backup" => passwordOk /\ ~locked /\ backupOk
                /\ proc'[p].pc \in {"idle", "login_inc", "login_reset", "login_backup"}
     /\ \A p \in Procs :
          (CountsMfaFailure(p) /\ users[proc[p].userId].exists) =>
            LET u == proc[p].userId
                expired == proc[p].doc.lockUntil # Absent /\ proc[p].doc.lockUntil < now
            IN  /\ last'.op = "login" /\ last'.resp = "invalid_mfa"
                /\ last'.token = NoToken
                /\ IF expired THEN users'[u].loginAttempts = 1
                   ELSE users'[u].loginAttempts = users[u].loginAttempts + 1
                /\ ~expired => users'[u].lockUntil >= users[u].lockUntil
                /\ issuedRefresh' = issuedRefresh /\ issuedAccess' = issuedAccess
     /\ \A p \in Procs :
          proc'[p].pc # proc[p].pc =>
            /\ proc'[p].pc = "login_reset" => proc[p].pc \in {"idle", "login_backup"}
            /\ proc'[p].pc = "login_last" => proc[p].pc = "login_reset"
            /\ proc'[p].pc = "login_cleanup" => proc[p].pc = "login_last"
            /\ proc'[p].pc = "login_token" => proc[p].pc = "login_cleanup"
     /\ \A u \in Identities :
          /\ (users'[u].loginAttempts = 0 /\ users[u].loginAttempts > 0) =>
               \E p \in Procs : /\ proc[p].pc = "login_reset" /\ proc[p].userId = u
                                /\ proc'[p].pc = "login_last"
          /\ (\E tok \in issuedRefresh' \ issuedRefresh : tok.uid = u) =>
               \E p \in Procs : /\ proc[p].pc = "login_token" /\ proc[p].userId = u
                                /\ proc'[p].pc = "idle"
    ]_vars

\* A login with the correct password and a wrong six-digit code was refused and
\* counted on an identity with MFA enabled, and no token has been issued.
C14_Witness ==
  /\ last.op = "login" /\ last.resp = "invalid_mfa"
  /\ users[last.userId].mfaEnabled
  /\ users[last.userId].loginAttempts > 0
  /\ issuedRefresh = {}

(***************************************************************************)
(* Claims about the MFA lifecycle                                          *)
(***************************************************************************)

\* C15: MFA becomes enabled on an identity only through the save of a verifyMFA
\* request; a verifyMFA request reaches that save iff, when it read the
\* identity, a secret was stored and the code it carried was a current code of
\* that secret, and is refused without a write otherwise; setupMFA leaves the
\* flag as it is; while the flag is false a login with the correct password and
\* no code goes on to issue tokens.
C15_EnabledOnlyAfterVerify ==
  [][/\ \A u \in Identities :
          (users[u].exists /\ ~users[u].mfaEnabled /\ users'[u].mfaEnabled) =>
            \E p \in Procs : /\ proc[p].pc = "verify_save" /\ proc[p].userId = u
                             /\ proc'[p].pc = "idle"
     /\ \A u \in Identities :
          (~users[u].exists /\ users'[u].exists) => ~users'[u].mfaEnabled
     /\ \A p \in Procs :
          (proc[p].pc = "verify_find" /\ proc'[p].pc # "verify_find") =>
            LET u == proc[p].userId
                secretSet == users[u].exists /\ users[u].mfaSecret # None
                codeOk == secretSet /\ proc[p].arg = TotpOf(users[u].mfaSecret)
            IN  /\ users' = users
                /\ proc'[p].pc = "verify_save" <=> codeOk
                /\ ~secretSet => last'.op = "verifyMFA" /\ last'.resp = "setup_not_found"
                /\ secretSet /\ ~codeOk =>
                     last'.op = "verifyMFA" /\ last'.resp = "invalid_mfa"
     /\ \A p \in Procs :
          (proc[p].pc \in {"setup_find", "setup_save"} /\ proc'[p].pc # proc[p].pc) =>
            users'[proc[p].userId].mfaEnabled = users[proc[p].userId].mfaEnabled
     /\ \A p \in Procs, u \in Identities, pw \in Passwords :
          (/\ proc[p].pc = "idle" /\ (proc'[p].op = "login" \/ last'.op = "login")
           /\ users[u].exists /\ ~users[u].mfaEnabled
           /\ users[u].password = Hash(pw)
           /\ ~(users[u].lockUntil # Absent /\ users[u].lockUntil > now)
           /\ LoginBegin(p, u, pw, "none")) =>
            proc'[p].pc = "login_reset"
    ]_vars

\* After a setup, a verifyMFA with a code that is not current was refused and the
\* identity still has MFA disabled.
C15_Witness ==
  /\ last.op = "verifyMFA" /\ last.resp = "invalid_mfa"
  /\ users[last.userId].exists
  /\ users[last.userId].mfaSecret # None
  /\ ~users[last.userId].mfaEnabled

\* The MFA fields of a document.
MfaFields(user) == <<user.mfaEnabled, user.mfaSecret, user.mfaBackupCodes>>

\* C17: the save of a disableMFA request changes the MFA fields only when the
\* password it carried is the identity's and the code it carried is a current
\* code of the stored secret; when it answers success the flag is false, the
\* secret absent and the backup-code list empty; when it answers anything else
\* nothing has changed; no other step of the request writes.
C17_DisableNeedsPasswordAndCode ==
  [][\A p \in Procs :
       /\ (proc[p].pc = "disable_find" /\ proc'[p].pc # "disable_find") => users' = users
       /\ (proc[p].pc = "disable_save" /\ proc'[p].pc = "idle") =>
            LET u == proc[p].userId
                valid == /\ users[u].exists
                         /\ users[u].password = Hash(proc[p].arg[1])
                         /\ users[u].mfaSecret # None
                         /\ proc[p].arg[2] = TotpOf(users[u].mfaSecret)
            IN  /\ ~valid => MfaFields(users'[u]) = MfaFields(users[u])
                /\ last'.resp = "mfa_disabled" =>
                     MfaFields(users'[u]) = <<FALSE, None, <<>> >>
                /\ last'.resp # "mfa_disabled" => users' = users
    ]_vars

C30_BackupCodeLogsIn ==
  [][\A p \in Procs, u \in Identities, pw \in Passwords, mfa \in MfaInputs :
       (/\ proc[p].pc = "idle"
        /\ users[u].exists /\ users[u].mfaEnabled
        /\ users[u].password = Hash(pw)
        /\ ~(users[u].lockUntil # Absent /\ users[u].lockUntil > now)
        /\ mfa # TotpOf(users[u].mfaSecret)
        /\ \E i \in 1..Len(users[u].mfaBackupCodes) :
             /\ users[u].mfaBackupCodes[i].code = mfa
             /\ ~users[u].mfaBackupCodes[i].used
        /\ LoginBegin(p, u, pw, mfa)) =>
         /\ proc'[p].pc = "login_backup"
         /\ users[u].mfaBackupCodes[proc'[p].idx].code = mfa
    ]_vars

(***************************************************************************)
(* Claims about registration and the stored password                       *)
(***************************************************************************)

\* The register request p inserts its document at this step.
RegisterCreates(p) == proc[p].pc = "reg_insert" /\ proc'[p].pc = "reg_token"

\* C21: no two stored identities have the same lowercased email, and a register
\* request inserts its document only when no identity with its lowercased email
\* is stored, whatever the register requests that overlap it.
C21_OneIdentityPerEmail ==
  [][/\ \A e1, e2 \in EmailStrings :
          (users'[e1].exists /\ users'[e2].exists
             /\ toLowerCase(e1) = toLowerCase(e2)) => e1 = e2
     /\ \A p \in Procs :
          RegisterCreates(p) =>
            \A e \in EmailStrings :
              toLowerCase(e) = toLowerCase(proc[p].userId) => ~users[e].exists
    ]_vars

\* Two registrations of one email overlapped; one has created the identity and
\* the other has been answered.
C21_Witness ==
  /\ last.op = "register" /\ last.resp = "error"
  /\ users[last.userId].exists

\* C22: a register request for an email that has an identity when the request
\* is decided (at its findOne, or at its insert when it lost to an overlapping
\* registration) is answered 'email exists' and changes nothing.
C22_DuplicateEmailConflict ==
  [][/\ \A p \in Procs, email \in EmailStrings, pw \in ValidPasswords :
          (/\ proc[p].pc = "idle"
           /\ users[toLowerCase(email)].exists
           /\ RegisterBegin(p, toLowerCase(email), pw)) =>
            /\ last'.op = "register" /\ last'.resp = "email_exists"
            /\ users' = users
     /\ \A p \in Procs :
          (proc[p].pc = "reg_insert" /\ proc'[p].pc # "reg_insert"
             /\ users[proc[p].userId].exists) =>
            /\ last'.op = "register" /\ last'.resp = "email_exists"
            /\ users' = users
    ]_vars

\* C23: the stored password of an identity is never the plaintext of a valid
\* password; it changes only at the save of a changePassword; and after a
\* register's insert and after a changePassword's save, comparePassword on the
\* stored value succeeds with the plaintext just set and fails with every other
\* valid password.
C23_StoredHashVerifiesOnlyItsPlaintext ==
  [][/\ \A u \in Identities :
          users'[u].exists =>
            \A c \in ValidPasswords : users'[u].password # Plaintext(c)
     /\ \A u \in Identities :
          (users[u].exists /\ users'[u].exists
             /\ users'[u].password # users[u].password) =>
            \E p \in Procs : proc[p].pc = "cp_save" /\ proc[p].userId = u
     /\ \A p \in Procs :
          RegisterCreates(p) =>
            \A c \in ValidPasswords :
              comparePassword(c, users'[proc[p].userId].password) <=> c = proc[p].arg
     /\ \A p \in Procs :
          (/\ proc[p].pc = "cp_save" /\ proc'[p].pc = "idle"
           /\ users'[proc[p].userId].password # users[proc[p].userId].password) =>
            \A c \in ValidPasswords :
              comparePassword(c, users'[proc[p].userId].password) <=> c = proc[p].arg[2]
    ]_vars

\* C24: the log holds no line that prints the password of a request: every
\* console line's password field is empty.
C24_NoPlaintextPasswordInLog ==
  \A line \in log : line.inputPassword = None

(***************************************************************************)
(* Claims about the statistics                                             *)
(***************************************************************************)

\* The UTC day of the clock of the statistics request.
UtcToday == toISODate(stats.now)

\* The length of the run of consecutive days with an entry that ends on day end.
RunEndingAt(days, end) ==
  CHOOSE n \in 0..Cardinality(days) :
    /\ \A k \in 0..(n - 1) : (end - k) \in days
    /\ (end - n) \notin days

\* C25: the current streak is the length of the run of consecutive UTC days with
\* an entry that ends today when today has an entry, and yesterday when it has
\* not.
C25_CurrentStreakIsRun ==
  stats.pc = "done" =>
    stats.currentStreak =
      RunEndingAt(stats.days, IF UtcToday \in stats.days THEN UtcToday ELSE UtcToday - 1)

\* C26: for a user with at least one entry, the consistency rate is the number
\* of entries divided by the whole days since the first entry plus one, as a
\* rounded percentage, and at most 100.
C26_ConsistencyRate ==
  (stats.consistencyRate # Absent /\ stats.days # {}) =>
    LET percent == RoundPercent(Cardinality(stats.days),
                     DaysSinceFirstEntry(stats.days, stats.firstHour, stats.now) + 1)
    IN  stats.consistencyRate = IF percent < RateCap THEN percent ELSE RateCap

(***************************************************************************)
(* Claims about renewal, login's pruning and changePassword                *)
(***************************************************************************)

\* C27: a refresh that is granted changes no user document (token lists,
\* failure counters and locks), hands out no refresh token and leaves the
\* presented token usable; and a refresh token that is usable stops being usable
\* only by the passing of time, by the save of a logout with that token or by
\* the save of a password change of its identity.
C27_RefreshDoesNotRotate ==
  [][/\ (last' # last /\ last'.op = "refresh" /\ last'.resp = "access") =>
          /\ users' = users
          /\ fifthAt' = fifthAt
          /\ issuedRefresh' = issuedRefresh
          /\ RefreshOutcome(last'.token, users', now') = "access"
     /\ \A tok \in issuedRefresh :
          (/\ RefreshOutcome(tok, users, now) = "access"
           /\ RefreshOutcome(tok, users', now') # "access") =>
            \/ now' # now
            \/ \E p \in Procs :
                 /\ proc[p].pc = "logout_save" /\ proc'[p].pc = "idle"
                 /\ proc[p].token = tok
            \/ \E p \in Procs :
                 /\ proc[p].pc = "cp_save" /\ proc'[p].pc = "idle"
                 /\ proc[p].userId = tok.uid
    ]_vars

\* A refresh token issued earlier has just been used for a renewal, and its
\* record is still active beside another record of the identity.
C27_Witness ==
  /\ last.op = "refresh" /\ last.resp = "access"
  /\ last.token.iat < now
  /\ RefreshOutcome(last.token, users, now) = "access"
  /\ Len(users[last.token.uid].refreshTokens) >= 2

\* C28: the cleanup of a login leaves on the identity's stored token list exactly
\* its records that are active and unexpired, in their order, and the login's
\* last save appends the record of the refresh token it returns, active, to the
\* stored list.
C28_LoginPrunesExactly ==
  [][\A p \in Procs :
       LET u == proc[p].userId
       IN  /\ (proc[p].pc = "login_cleanup" /\ proc'[p].pc = "login_token") =>
                users'[u].refreshTokens = CleanTokens(users[u].refreshTokens, now)
           /\ (proc[p].pc = "login_token" /\ proc'[p].pc = "idle"
                 /\ last'.op = "login" /\ last'.resp = "tokens") =>
                /\ users'[u].refreshTokens =
                     Append(users[u].refreshTokens, TokenRecord(last'.token, now))
                /\ TokenRecord(last'.token, now).isActive
    ]_vars

\* C29: a changePassword request reaches its save only from a document on which
\* the current password verifies and from which the new password, which meets
\* the strength policy, differs; a stored password changes only at such a save;
\* and a request that is refused (failed validation, wrong current password,
\* new password equal to the current one, or any other error) changes no user
\* document, so neither the stored hash nor a token list.
C29_ChangePasswordPreconditions ==
  [][/\ \A p \in Procs :
          LET u == proc[p].userId
          IN  /\ (proc'[p].pc = "cp_find" /\ proc[p].pc # "cp_find") =>
                    /\ validatePassword(proc'[p].arg[2])
                    /\ users' = users
              /\ (proc'[p].pc = "cp_save" /\ proc[p].pc # "cp_save") =>
                    /\ proc[p].pc = "cp_find"
                    /\ users[u].exists
                    /\ comparePassword(proc[p].arg[1], users[u].password)
                    /\ validatePassword(proc[p].arg[2])
                    /\ ~comparePassword(proc[p].arg[2], users[u].password)
                    /\ users' = users
              /\ (proc[p].pc = "cp_find" /\ proc'[p].pc = "idle") =>
                    /\ last'.op = "changePassword"
                    /\ last'.resp \in {"user_not_found", "invalid_password",
                                       "weak_password", "same_password"}
                    /\ (\/ ~users[u].exists
                        \/ ~comparePassword(proc[p].arg[1], users[u].password)
                        \/ ~validatePassword(proc[p].arg[2])
                        \/ comparePassword(proc[p].arg[2], users[u].password))
     /\ \A u \in Identities :
          (users[u].exists /\ users'[u].exists
             /\ users'[u].password # users[u].password) =>
            \E p \in Procs : proc[p].pc = "cp_save" /\ proc[p].userId = u
     /\ (last' # last /\ last'.op = "changePassword" /\ last'.resp # "password_changed") =>
          users' = users
    ]_vars

\* A changePassword with a wrong current password has been refused while a
\* refresh token of the identity is still accepted.
C29_Witness ==
  /\ last.op = "changePassword" /\ last.resp = "invalid_password"
  /\ \E tok \in issuedRefresh :
       tok.uid = last.userId /\ RefreshOutcome(tok, users, now) = "access"

(***************************************************************************)
(* Claims about deleted accounts and login responses                       *)
(***************************************************************************)

\* C31: once deleteAccount has removed an identity, the identity stays removed,
\* the guard denies every access token issued to it (401 user not found while
\* the token still verifies, 401 invalid token afterwards), refreshToken grants
\* nothing to any refresh token issued to it, and the requests that present
\* such tokens are answered so.
C31_DeletedIdentityTokensRejected ==
  [][/\ \A u \in Identities :
          (~users[u].exists /\ EverIssued(u)) => ~users'[u].exists
     /\ \A u \in Identities :
          (~users'[u].exists /\ EverIssued(u)) =>
            /\ \A tok \in issuedAccess' :
                 tok.uid = u =>
                   GuardOutcome(tok, users', now') =
                     IF verifyAccessToken(tok, now') THEN "user_not_found" ELSE "invalid_token"
            /\ \A tok \in issuedRefresh' :
                 tok.uid = u => RefreshOutcome(tok, users', now') # "access"
     /\ (last' # last /\ last'.op = "getEntry" /\ last'.token.kind = "access"
           /\ ~users[last'.token.uid].exists) =>
          last'.resp \in {"user_not_found", "invalid_token"}
     /\ (last' # last /\ last'.op = "refresh" /\ last'.token.kind = "refresh"
           /\ ~users[last'.token.uid].exists) =>
          (last'.resp \in {"user_not_found", "invalid_token"}
             /\ issuedAccess' = issuedAccess)
    ]_vars

\* A guarded request that presented a still unexpired access token of a
\* deleted identity has been answered 'user not found'.
C31_Witness ==
  /\ last.op = "getEntry" /\ last.resp = "user_not_found"
  /\ last.token \in issuedAccess
  /\ ~users[last.token.uid].exists
  /\ \E tok \in issuedRefresh : tok.uid = last.token.uid /\ verifyRefreshToken(tok, now)

\* The status and JSON body login sends for each of its refusals: 'user not
\* found' and 'invalid password' send the same 401, 'locked' a 423, a missing
\* MFA code a 200 with requiresMFA, a wrong MFA code a 401 of its own.
LoginResponseBody(resp) ==
  CASE resp = "invalid_credentials" ->
         [status |-> 401, error |-> "Login failed", message |-> "Invalid email or password"]
    [] resp = "invalid_mfa" ->
         [status |-> 401, error |-> "Login failed", message |-> "Invalid MFA code"]
    [] resp = "locked" ->
         [status |-> 423, error |-> "Account locked",
          message |-> "Account is temporarily locked due to too many failed login attempts"]
    [] resp = "mfa_required" ->
         [status |-> 200, error |-> None, message |-> "MFA code required"]
    [] resp = "validation" ->
         [status |-> 400, error |-> "Validation failed", message |-> None]
    [] OTHER ->
         [status |-> 200, error |-> None, message |-> "Login successful"]

\* C32: the response to a failed login of a non-locked identity is the same
\* whichever factor failed: an unregistered email, a wrong password and a wrong
\* MFA code are all answered with the body sent for an unregistered email.
C32_LoginFailuresGeneric ==
  (last.op = "login" /\ last.resp \in {"invalid_credentials", "invalid_mfa"})
    => LoginResponseBody(last.resp) = LoginResponseBody("invalid_credentials")

(***************************************************************************)
(* Claims about the day-key and the entries                                *)
(***************************************************************************)

\* C33: the day-key of every stored entry is the UTC calendar day of its
\* creation instant, whatever 'timezone' header the request carried: the header
\* is stored as metadata only, and the outcome of the save (created, or refused
\* as the day's duplicate) and the day-key it used depend on the identity and the
\* UTC day of the instant alone.
C33_DayKeyIsUtcDay ==
  [][/\ \A e \in entries' : e.dateString = formatDateString(e.entryDate)
     /\ \A r \in EntryReqs :
          (ereq[r].pc = "save" /\ ereq'[r].pc = "done") =>
            /\ ereq'[r].dateString = formatDateString(clock)
            /\ ereq'[r].resp =
                 IF FindEntry(ereq[r].userId, formatDateString(clock)) = {}
                 THEN "created" ELSE "duplicate"
            /\ ereq'[r].resp = "created" =>
                 \E e \in entries' \ entries :
                   /\ e.userId = ereq[r].userId /\ e.entryDate = clock
                   /\ e.timezone = ereq[r].timezone
    ]_vars

\* Two entries of one identity, one written with the header of a zone in which
\* the instant falls on another calendar day than in UTC, and one request with
\* that header refused as the duplicate of its UTC day.
C33_Witness ==
  /\ \E e \in entries :
       /\ e.timezone = "Etc/GMT-12"
       /\ LocalDay(e.timezone, e.entryDate) # formatDateString(e.entryDate)
       /\ \E f \in entries : f.userId = e.userId /\ f.timezone = "UTC" /\ f # e
  /\ \E r \in EntryReqs : ereq[r].resp = "duplicate" /\ ereq[r].timezone = "Etc/GMT-12"

\* C34: canWriteToday answers canWrite = false exactly when the ledger holds an
\* entry of the identity created on the UTC day on which the handler read the
\* clock: false from the successful createEntry of that day on, true on a day
\* without an entry whatever the earlier days hold.
C34_CanWriteIffNoEntryToday ==
  [][\A r \in EntryReqs :
       (ereq[r].pc = "cw_find" /\ ereq'[r].pc = "done") =>
         /\ ereq'[r].resp \in {"has_written", "can_write"}
         /\ ereq'[r].resp = "has_written" <=>
              \E e \in entries :
                /\ e.userId = ereq[r].userId
                /\ formatDateString(e.entryDate) = ereq[r].today
    ]_vars

\* An identity was told 'has written' on the day of its entry and 'can write'
\* on the next day, its entry still in the ledger.
C34_Witness ==
  \E r1, r2 \in EntryReqs :
    /\ ereq[r1].resp = "has_written" /\ ereq[r2].resp = "can_write"
    /\ ereq[r1].userId = ereq[r2].userId
    /\ ereq[r2].today = ereq[r1].today + 1
    /\ \E e \in entries : e.userId = ereq[r1].userId /\ e.dateString = ereq[r1].today

\* C35: a stored entry never changes and never disappears, except that the
\* deleteMany of a deleteAccount request of its owner, a request that is then
\* answered 'Account deleted successfully', removes it; an entry that was
\* removed does not come back under its _id.
C35_EntriesImmutable ==
  [][/\ \A e \in entries :
          e \notin entries' =>
            /\ \A f \in entries' : f.id # e.id
            /\ \E p \in Procs :
                 /\ proc[p].op = "deleteAccount" /\ proc[p].pc = "del_entries"
                 /\ proc[p].userId = e.userId
                 /\ proc'[p].pc = "del_user"
     /\ \A p \in Procs :
          (proc[p].pc = "del_user" /\ proc'[p].pc # "del_user") =>
            (last'.op = "deleteAccount" /\ last'.resp = "deleted")
    ]_vars

\* An entry that was created is gone after the deleteAccount of its owner, and
\* another request of the same day was refused as its duplicate before.
C35_Witness ==
  /\ last.op = "deleteAccount" /\ last.resp = "deleted"
  /\ \E r \in EntryReqs :
       /\ ereq[r].resp = "created" /\ ereq[r].userId = last.userId
       /\ \A e \in entries : e.id # r
       /\ \E q \in EntryReqs : ereq[q].resp = "duplicate" /\ ereq[q].userId = last.userId

\* C36: the streak walk examines at most 365 day-keys and its streak never
\* exceeds 365, whatever the ledger holds.
C36_WalkExaminesAtMost365 ==
  /\ stats.examined <= MaxStreakDays
  /\ stats.currentStreak <= MaxStreakDays

(***************************************************************************)
(* Claims about the password policy, the tokens, MFA and the timer         *)
(***************************************************************************)

\* C37: register accepts a password exactly when it has at least 8 characters
\* with an uppercase letter, a lowercase letter, a digit and a symbol, and its
\* two checks, registerValidation and validatePassword, accept the same passwords.
C37_ValidatorsAgree ==
  signup.pc = "done" =>
    /\ signup.resp = "accepted" <=> validatePasswordStrength(signup.password)
    /\ registerValidation(signup.password) <=> validatePasswordStrength(signup.password)

\* C38: no two records of an identity's token list hold the same refresh-token
\* string.
C38_TokenStringsDistinct ==
  \A u \in Identities :
    \A i, j \in 1..Len(users[u].refreshTokens) :
      i # j => users[u].refreshTokens[i].token # users[u].refreshTokens[j].token

\* C39: a stored identity whose MFA is enabled has a stored secret.
C39_EnabledHasSecret ==
  \A u \in Identities :
    (users[u].exists /\ users[u].mfaEnabled) => users[u].mfaSecret # None

\* C40: after any sequence of start, pause, resume, stop, reset and ticks the
\* timer has 0 <= timeLeft <= initialTime, and is not completed and active at
\* once.
C40_TimerBoundsAndExclusion ==
  /\ 0 <= timer.timeLeft /\ timer.timeLeft <= InitialTime
  /\ ~(timer.isCompleted /\ timer.isActive)

====
